---- MODULE Spec2Model ----
(***************************************************************************)
(* Weather ingestion-and-archival pipeline (weather-map-leaflet-js).       *)
(*                                                                         *)
(* The model follows backend/utils/weatherRepository.js (the archive-then- *)
(* overwrite writers and the retention cleanup), the three collectors'     *)
(* main() and runAllCollectors.js / helpers.js (retry of a class flow).    *)
(*                                                                         *)
(* A stored document is a function from the names of the fields it holds   *)
(* to their values, so that MongoDB's $set (which overwrites the fields it *)
(* names and keeps the others) is modelled by what it does.  A collection  *)
(* is the sequence of its documents in insertion order.  The static        *)
(* fields of a location (name, lat, lon, coordinates, port_name) are       *)
(* folded into its identity, field "key".  Field "sid" is a token that is  *)
(* fresh for every fetched snapshot: it stands for the provider's payload  *)
(* of that fetch: <<number of the fetch, position in its location list>>.  *)
(* Time is counted in hours.                                               *)
(***************************************************************************)
EXTENDS Integers, Sequences, FiniteSets, TLC

VARIABLES
  current,   \* current[c]: the class's current collection (city_weather, ...)
  history,   \* history[c]: the class's history collection
  now,       \* wall clock, hours
  proc,      \* proc[w]: the collector flow of pipeline process w
  nfetch,    \* number of fetches made so far
  nfault,    \* number of store operations that have thrown so far
  enabled,   \* the classes whose flows run in this behaviour
  batched,   \* the locals of fetchWeatherDataBatched, and a log of its calls
  cleaner,   \* the retention cleanup in progress and what it reported
  orch,      \* the orchestrator, and the state of the store connection
  retrier,   \* one call of retryWithBackoff: its arguments, locals and log
  meta       \* meta[c]: the class's metadata collection (city_metadata, ...)

vars == <<current, history, now, proc, nfetch, nfault, enabled, batched, cleaner, orch,
          retrier, meta>>

------------------------------------------------------------------------------
(* Bounds of the model *)

MaxFetches == 3      \* fetches explored
MaxClock   == 13     \* the clock stops here
MaxLen     == 2      \* longest location list
MaxFaults  == 1      \* store operations that throw

MaxGateClock == 14   \* latest clock value at which a gate is tried alone

MaxLocations == 5    \* longest location list given to the batched fetcher
MaxBatchSize == 3    \* largest batch size
MaxIterations == 7   \* iterations of the batchArray loop that are followed

MaxPorts == 10       \* longest port list given to the per-item loop

MaxCleanupRuns == 2  \* cleanups run one after the other

MaxRequest == 3      \* most locations submitted in one request

MaxRetryCount == 5   \* largest maxRetries given to retryWithBackoff

(* Program constants *)

FreshnessCity == 6
FreshnessGrid == 12
FreshnessPort == 6
MaxRetries    == 3
CollectorMaxRetries == 3
RequestDelayMs == 500
RetryDelayStart == 60000
HoursPerDay   == 24
BaseDelay == 5000
PauseMs == 5000

Classes   == {"city", "grid", "port"}
KeyOrder  == <<"k1", "k2">>
Keys      == {KeyOrder[i] : i \in DOMAIN KeyOrder}
TickSteps == {13}
DaysToKeepChoices == {0, 1}
Workers   == {1, 2}

\* The classes in the order the orchestrator runs them.
COLLECTORS == <<"city", "grid", "port">>

------------------------------------------------------------------------------
(* Helpers on sequences and documents *)

Prefix(s, n) == SubSeq(s, 1, n)

IsPrefix(s, t) == Len(s) <= Len(t) /\ Prefix(t, Len(s)) = s

SeqsUpTo(S, n) == UNION {[1..m -> S] : m \in 0..n}

RECURSIVE Pow2(_)
Pow2(n) == IF n = 0 THEN 1 ELSE 2 * Pow2(n - 1)

KeysOf(s) == {s[i]["key"] : i \in DOMAIN s}

\* { ...old, ...new }: the fields of new, and those of old that new lacks.
Merge(old, new) ==
  [f \in DOMAIN old \cup DOMAIN new |-> IF f \in DOMAIN new THEN new[f] ELSE old[f]]

Max(S) == CHOOSE x \in S : \A y \in S : y <= x

\* The elements of s at the positions in keep, in order.
RECURSIVE SubList(_, _)
SubList(s, keep) ==
  IF Len(s) = 0 THEN <<>>
  ELSE SubList(Prefix(s, Len(s) - 1), keep)
         \o (IF Len(s) \in keep THEN <<s[Len(s)]>> ELSE <<>>)

------------------------------------------------------------------------------
(* The freshness gate *)

hoursSince(date) == now - date

\* Variant: the boundary counts as stale.
isDataFreshStrict(fetchedAt, maxAgeHours) ==
  IF fetchedAt = -1 THEN FALSE ELSE hoursSince(fetchedAt) < maxAgeHours

isDataFresh(fetchedAt, maxAgeHours) ==
  IF fetchedAt = -1 THEN FALSE ELSE hoursSince(fetchedAt) <= maxAgeHours

\* findOne({fetched_at: {$exists: true}}).sort({fetched_at: -1}); -1 is null.
getLatestFetchTime(c) ==
  LET times == {current[c][i]["fetched_at"] :
                  i \in {j \in DOMAIN current[c] : "fetched_at" \in DOMAIN current[c][j]}}
  IN IF times = {} THEN -1 ELSE Max(times)

freshness(c) ==
  CASE c = "city" -> FreshnessCity
    [] c = "grid" -> FreshnessGrid
    [] c = "port" -> FreshnessPort

isWeatherFresh(c) == isDataFresh(getLatestFetchTime(c), freshness(c))

------------------------------------------------------------------------------
(* The flow of one pipeline process *)

\* fetchWeatherDataBatched before it is called.
IdleBatched ==
  [pc |-> "idle", locations |-> <<>>, batchSize |-> 0, batches |-> <<>>,
   batchNum |-> 0, retry |-> 0, retryDelay |-> 0, allProcessedData |-> <<>>,
   log |-> <<>>, i |-> 0]

\* The result cleanupOldHistory has not returned (yet, or because it threw).
NoResult == [ok |-> FALSE]

\* The retention cleaner before it is called.  pending holds the classes whose
\* deleteMany is outstanding, failed those whose deleteMany threw; before is
\* the history as the run found it, lastResult and lastCutoff the result and
\* the cutoff of the run before (kept for the properties, read by no action).
IdleCleaner ==
  [pc |-> "idle", cutoffDate |-> 0, pending |-> {}, failed |-> {},
   deletedCount |-> [c \in {"city", "grid", "port"} |-> 0],
   result |-> NoResult, exit |-> 0, runs |-> 0,
   before |-> [c \in {"city", "grid", "port"} |-> <<>>],
   lastResult |-> NoResult, lastCutoff |-> 0]

\* The orchestrator before it is started: no connection to the store.
\* isConnected is the flag of the database module; connects and disconnects
\* count the calls of mongoose.connect and mongoose.disconnect, lost tells
\* that the driver has reported the connection lost, and log lists what the
\* orchestrator did, in order (kept for the properties, read by no action).
IdleOrch ==
  [pc |-> "idle", isConnected |-> FALSE, index |-> 0, results |-> <<>>,
   exit |-> 0, connects |-> 0, disconnects |-> 0, lost |-> FALSE, log |-> <<>>]

\* retryWithBackoff before it is called.  log lists its calls of fn and its
\* sleeps, in order (kept for the properties, read by no action); result is
\* what it returned or threw.
IdleRetrier ==
  [pc |-> "idle", maxRetries |-> 0, baseDelay |-> 0, attempt |-> 0,
   log |-> <<>>, result |-> [kind |-> "none"]]

\* The locals of one flow: the attempt number of retryWithBackoff, and
\* main()'s ports/cities/gridPoints (locs), its results (data), its count
\* successful, the writer's historyDocs and operations/documents, and the exit
\* code main() returned (ret) with the reason for it (err).  seen keeps the
\* tokens of the snapshots the writer's archival lookup returned, and
\* freshAtStart whether the class's data was fresh when the first attempt of
\* the flow reached its gate (history of the flow, read by no action).  delays
\* lists the sleeps retryWithBackoff has made between the attempts of the flow.
IdleProc ==
  [pc |-> "idle", cls |-> "none", attempt |-> 0, locs |-> <<>>, data |-> <<>>,
   successful |-> 0, seen |-> {}, historyDocs |-> <<>>, documents |-> <<>>,
   ret |-> 0, err |-> "none", freshAtStart |-> FALSE, delays |-> <<>>]

Init ==
  /\ current = [c \in Classes |-> <<>>]
  /\ history = [c \in Classes |-> <<>>]
  /\ now = 0
  /\ proc = [w \in Workers |-> IdleProc]
  /\ nfetch = 0
  /\ nfault = 0
  /\ enabled \in {{c} : c \in Classes}
  /\ batched = IdleBatched
  /\ cleaner = IdleCleaner
  /\ orch = IdleOrch
  /\ retrier = IdleRetrier
  /\ meta = [c \in Classes |-> <<>>]

\* A store operation throws (within the fault budget of the model).
Throws == nfault < MaxFaults /\ nfault' = nfault + 1

\* main() returns code: the attempt is over.
Return(w, code, why) ==
  [proc EXCEPT ![w] = [IdleProc EXCEPT !["pc"] = "done", !["cls"] = proc[w]["cls"],
                                      !["attempt"] = proc[w]["attempt"],
                                      !["freshAtStart"] = proc[w]["freshAtStart"],
                                      !["delays"] = proc[w]["delays"],
                                      !["ret"] = code, !["err"] = why]]

\* runCollectorWithRetry(collector): retryWithBackoff makes the first call.
StartFlow(w, c) ==
  /\ proc[w]["pc"] = "idle"
  /\ c \in enabled
  /\ proc' = [proc EXCEPT ![w] = [IdleProc EXCEPT !["pc"] = "gate", !["cls"] = c,
                                                 !["attempt"] = 1]]
  /\ UNCHANGED <<current, history, now, nfetch, nfault, enabled, batched, cleaner, orch, retrier, meta>>

\* Variant: the collector goes on to load its locations whatever the gate says.
CheckFreshnessProceeding(w) ==
  /\ proc[w]["pc"] = "gate"
  /\ proc' = [proc EXCEPT ![w]["pc"] = "load"]
  /\ UNCHANGED <<current, history, now, nfetch, nfault, enabled, batched, cleaner, orch, retrier, meta>>

\* checkDataFreshness(): a throwing store read counts as stale.
CheckFreshness(w) ==
  /\ proc[w]["pc"] = "gate"
  /\ LET atStart == IF proc[w]["attempt"] = 1 THEN isWeatherFresh(proc[w]["cls"])
                    ELSE proc[w]["freshAtStart"]
         stale   == [proc EXCEPT ![w]["pc"] = "load", ![w]["freshAtStart"] = atStart]
     IN \/ /\ Throws
           /\ proc' = stale
        \/ /\ proc' = IF isWeatherFresh(proc[w]["cls"])
                      THEN [Return(w, 0, "fresh") EXCEPT ![w]["freshAtStart"] = atStart]
                      ELSE stale
           /\ UNCHANGED nfault
  /\ UNCHANGED <<current, history, now, nfetch, enabled, batched, cleaner, orch, retrier, meta>>

\* The location lists the metadata store can supply (find({}) returns the
\* documents in insertion order).  city_metadata and port_metadata have a
\* unique index on the identity and are filled by upserts, so their lists
\* are sub-lists of one list without repetition; grid_metadata has no unique
\* index and is replaced as a whole by saveGridMetadata, so a grid list is
\* any list and may repeat a point.  A list may be empty (every document
\* filtered out for want of coordinates).
MetaLists(c) ==
  IF c = "grid" THEN SeqsUpTo(Keys, MaxLen)
                ELSE {SubList(KeyOrder, keep) : keep \in SUBSET DOMAIN KeyOrder}

\* Variant: main() without its test of the list.
LoadLocationsNoEmptyTest(w) ==
  /\ proc[w]["pc"] = "load"
  /\ \E locs \in MetaLists(proc[w]["cls"]) :
       proc' = [proc EXCEPT ![w]["pc"] = "fetch", ![w]["locs"] = locs]
  /\ UNCHANGED <<current, history, now, nfetch, nfault, enabled, batched, cleaner, orch, retrier, meta>>

\* loadCityCoordinates() / loadGridCoordinates() / loadPortData(), and main()'s
\* test of the list.
LoadLocations(w) ==
  /\ proc[w]["pc"] = "load"
  /\ \E locs \in MetaLists(proc[w]["cls"]) :
       proc' = IF Len(locs) = 0 THEN Return(w, 1, "nolocations")
               ELSE [proc EXCEPT ![w]["pc"] = "fetch", ![w]["locs"] = locs]
  /\ UNCHANGED <<current, history, now, nfetch, nfault, enabled, batched, cleaner, orch, retrier, meta>>

\* One processedData.push({...}) of fetchCityWeatherData / fetchWeatherDataBatch.
\* (weather_data.fetched_at is kept beside the payload: the two are always set
\* and replaced together.)
WeatherItem(k, n, i) ==
  [key |-> k, sid |-> <<n, i>>, weather_data |-> "wx", fetched_at |-> now]

\* fetchPortWeather(port): the three results it can return.
PortItem(k, n, i, status) ==
  CASE status = "success" ->
         [key |-> k, sid |-> <<n, i>>, weather_data |-> "wx", fetched_at |-> now,
          status |-> "success"]
    [] status = "failed" ->
         [key |-> k, sid |-> <<n, i>>, weather_data |-> "null", fetched_at |-> now,
          status |-> "failed", error |-> "HTTP"]
    [] status = "error" ->
         [key |-> k, sid |-> <<n, i>>, weather_data |-> "null", fetched_at |-> now,
          status |-> "error", error |-> "message"]

PortStatuses == {"success", "failed", "error"}

\* The results a fetch can bring: for city and grid the snapshots of any
\* sub-list of the locations, in order (results without "current", failed
\* requests and dropped batches are missing); for ports one snapshot per
\* location, tagged with the outcome of its request.
FetchResults(c, locs, n) ==
  IF c = "port"
  THEN {[i \in DOMAIN locs |-> PortItem(locs[i], n, i, st[i])] :
          st \in [DOMAIN locs -> PortStatuses]}
  ELSE {SubList([i \in DOMAIN locs |-> WeatherItem(locs[i], n, i)], keep) :
          keep \in SUBSET DOMAIN locs}

\* main() of the port collector: successful++ for every result tagged success.
Successful(data) ==
  Cardinality({i \in DOMAIN data :
                 "status" \in DOMAIN data[i] /\ data[i]["status"] = "success"})

\* The fetches explored.  A run of the orchestrator makes at most one fetch in
\* each of the MaxRetries attempts of each class, so there the cap never binds.
FetchCap ==
  IF orch["pc"] = "idle" THEN MaxFetches ELSE MaxRetries * Len(COLLECTORS)

\* Variant: an empty result is handed to the writer like any other.
FetchNoEmptyTest(w) ==
  /\ proc[w]["pc"] = "fetch"
  /\ nfetch < FetchCap
  /\ nfetch' = nfetch + 1
  /\ \E data \in FetchResults(proc[w]["cls"], proc[w]["locs"], nfetch + 1) :
       proc' = [proc EXCEPT ![w]["pc"] = "archFind", ![w]["locs"] = <<>>,
                            ![w]["data"] = data,
                            ![w]["successful"] = Successful(data)]
  /\ UNCHANGED <<current, history, now, nfault, enabled, batched, cleaner, orch, retrier, meta>>

\* main(): the fetch and the test of its result.
Fetch(w) ==
  /\ proc[w]["pc"] = "fetch"
  /\ nfetch < FetchCap
  /\ nfetch' = nfetch + 1
  /\ \E data \in FetchResults(proc[w]["cls"], proc[w]["locs"], nfetch + 1) :
       proc' = IF Len(data) = 0 THEN Return(w, 1, "nodata")
               ELSE [proc EXCEPT ![w]["pc"] = "archFind", ![w]["locs"] = <<>>,
                                 ![w]["data"] = data,
                                 ![w]["successful"] = Successful(data)]
  /\ UNCHANGED <<current, history, now, nfault, enabled, batched, cleaner, orch, retrier, meta>>

------------------------------------------------------------------------------
(* The per-item loop of the port collector *)

\* One turn of main()'s loop over the ports: result = await
\* fetchPortWeather(port), which makes one request (axios.get) and returns a
\* result whatever the request did; results.push(result); successful++ when
\* it is tagged success.  The request is recorded in the log.
PortLoopStep(w) ==
  /\ proc[w]["pc"] = "fetch"
  /\ proc[w]["cls"] = "port"
  /\ Len(proc[w]["data"]) < Len(proc[w]["locs"])
  /\ LET i == Len(proc[w]["data"]) + 1
     IN \E status \in PortStatuses :
          LET result == PortItem(proc[w]["locs"][i], nfetch + 1, i, status)
          IN /\ proc' = [proc EXCEPT
                          ![w]["data"] = Append(@, result),
                          ![w]["successful"] = IF result["status"] = "success"
                                               THEN @ + 1 ELSE @]
             /\ batched' = [batched EXCEPT
                              !["log"] = Append(@, [ev |-> "request", item |-> i,
                                                    status |-> status])]
  /\ UNCHANGED <<current, history, now, nfetch, nfault, enabled, cleaner, orch, retrier, meta>>

\* Variant: the loop also ends after an item that did not succeed.
PortLoopEndOnFailure(w) ==
  /\ proc[w]["pc"] = "fetch"
  /\ proc[w]["cls"] = "port"
  /\ \/ ~(Len(proc[w]["data"]) < Len(proc[w]["locs"]))
     \/ /\ Len(proc[w]["data"]) > 0
        /\ proc[w]["data"][Len(proc[w]["data"])]["status"] # "success"
  /\ nfetch' = nfetch + 1
  /\ proc' = [proc EXCEPT ![w]["pc"] = "archFind", ![w]["locs"] = <<>>]
  /\ UNCHANGED <<current, history, now, nfault, enabled, batched, cleaner, orch, retrier, meta>>

\* The loop is over (i = ports.length): results goes to savePortWeatherData.
PortLoopEnd(w) ==
  /\ proc[w]["pc"] = "fetch"
  /\ proc[w]["cls"] = "port"
  /\ ~(Len(proc[w]["data"]) < Len(proc[w]["locs"]))
  /\ nfetch' = nfetch + 1
  /\ proc' = [proc EXCEPT ![w]["pc"] = "archFind", ![w]["locs"] = <<>>]
  /\ UNCHANGED <<current, history, now, nfault, enabled, batched, cleaner, orch, retrier, meta>>

------------------------------------------------------------------------------
(* The batched fetcher of the grid collector *)

Min(a, b) == IF a <= b THEN a ELSE b

\* Variant: a last batch shorter than size is left out.
RECURSIVE batchArrayFullOnlyFrom(_, _, _)
batchArrayFullOnlyFrom(array, size, i) ==
  IF i + size > Len(array) THEN <<>>
  ELSE <<SubSeq(array, i + 1, i + size)>> \o batchArrayFullOnlyFrom(array, size, i + size)

batchArrayFullOnly(array, size) == batchArrayFullOnlyFrom(array, size, 0)

\* for (let i = 0; i < array.length; i += size) batches.push(array.slice(i, i + size))
RECURSIVE batchArrayFrom(_, _, _)
batchArrayFrom(array, size, i) ==
  IF ~(i < Len(array)) THEN <<>>
  ELSE <<SubSeq(array, i + 1, Min(i + size, Len(array)))>>
         \o batchArrayFrom(array, size, i + size)

batchArray(array, size) == batchArrayFrom(array, size, 0)

\* Array.prototype.slice(start, end): a negative index counts from the end of
\* the array, an index past either end is clamped to it, and an end that is
\* not after the start gives the empty array.
slice(array, start, end) ==
  LET n == Len(array)
      relative(k) == IF k < 0 THEN (IF n + k < 0 THEN 0 ELSE n + k) ELSE Min(k, n)
  IN SubSeq(array, relative(start) + 1, relative(end))

\* The integers parseInt(process.env.BATCH_SIZE || '50', 10) can give:
\* "0" gives 0 and "-1" gives -1, nothing checks the sign.
BatchSizes == (0 - MaxBatchSize)..MaxBatchSize

\* batchArray(array, size) is called: const batches = []; let i = 0.
BatchArrayCall ==
  /\ batched["pc"] = "idle"
  /\ batched' = [batched EXCEPT !["pc"] = "slicing", !["batches"] = <<>>, !["i"] = 0]
  /\ UNCHANGED <<current, history, now, proc, nfetch, nfault, enabled, cleaner, orch, retrier, meta>>

\* One iteration of the loop: the test i < array.length held, the body pushes
\* array.slice(i, i + size), then i += size.  The iterations that are followed
\* are MaxIterations at most.
BatchArrayStep ==
  /\ batched["pc"] = "slicing"
  /\ batched["i"] < Len(batched["locations"])
  /\ Len(batched["batches"]) < MaxIterations
  /\ LET i == batched["i"]
         size == batched["batchSize"]
     IN batched' = [batched EXCEPT
                      !["batches"] = Append(@, slice(batched["locations"], i, i + size)),
                      !["i"] = i + size]
  /\ UNCHANGED <<current, history, now, proc, nfetch, nfault, enabled, cleaner, orch, retrier, meta>>

\* The test i < array.length fails: return batches.
BatchArrayReturn ==
  /\ batched["pc"] = "slicing"
  /\ ~(batched["i"] < Len(batched["locations"]))
  /\ batched' = [batched EXCEPT !["pc"] = "sliced"]
  /\ UNCHANGED <<current, history, now, proc, nfetch, nfault, enabled, cleaner, orch, retrier, meta>>

\* What one request can bring: the request throws (error), response.data is
\* no array (object), or it is an array whose entries hold "current"
\* (current), lack it (nocurrent) or are null (null).  The array may be
\* shorter or longer than the list of locations submitted.
ResponseEntries == {"current", "nocurrent", "null"}

Responses(n) ==
  {[kind |-> "error"], [kind |-> "object"]}
    \cup {[kind |-> "array", data |-> d] : d \in SeqsUpTo(ResponseEntries, n + 1)}

\* The positions the loop of fetchWeatherDataBatch visits.
Visited(locations, data) == 1..Min(Len(data), Len(locations))

\* Variant: the k-th result that holds "current" is paired with the k-th
\* location.
fetchWeatherDataBatchCompacting(locations, response, n) ==
  IF response["kind"] # "array" THEN <<>>
  ELSE LET data == response["data"]
           kept == SubList([i \in DOMAIN data |-> i],
                           {i \in Visited(locations, data) : data[i] = "current"})
       IN IF \E i \in Visited(locations, data) : data[i] = "null" THEN <<>>
          ELSE [k \in DOMAIN kept |-> WeatherItem(locations[k], n, kept[k])]

\* fetchWeatherDataBatch(locations) / fetchCityWeatherData(cities) on a given
\* response: for i below both lengths, the entry i of the response that holds
\* "current" is pushed with the name and place of locations[i].  A null entry
\* makes locationData.current throw; the catch returns [], as it does when
\* the request throws.
fetchWeatherDataBatch(locations, response, n) ==
  IF response["kind"] # "array" THEN <<>>
  ELSE LET data == response["data"]
       IN IF \E i \in Visited(locations, data) : data[i] = "null" THEN <<>>
          ELSE SubList([i \in DOMAIN locations |-> WeatherItem(locations[i], n, i)],
                       {i \in Visited(locations, data) : data[i] = "current"})

\* One call of fetchWeatherDataBatch / fetchCityWeatherData, with what it was
\* given and what it returned.
FetchOnce(w) ==
  /\ proc[w]["pc"] = "fetch"
  /\ batched["pc"] = "idle"
  /\ \E response \in Responses(Len(proc[w]["locs"])) :
       batched' = [batched EXCEPT
                     !["pc"] = "returned",
                     !["locations"] = proc[w]["locs"],
                     !["log"] = <<[ev |-> "fetch", response |-> response,
                                   result |-> fetchWeatherDataBatch(proc[w]["locs"],
                                                                    response, nfetch + 1)]>>]
  /\ nfetch' = nfetch + 1
  /\ UNCHANGED <<current, history, now, proc, nfault, enabled, cleaner, orch, retrier, meta>>

\* What fetchWeatherDataBatch(locations) can return: the snapshots of the
\* locations whose entry of the response holds "current", in order; the
\* empty list when the request fails (its catch returns []), when the
\* response is no array or when no entry holds "current".  It never throws.
\* offset is the position of the batch's first location in the whole list.
BatchResults(locations, offset, n) ==
  {SubList([i \in DOMAIN locations |-> WeatherItem(locations[i], n, offset + i)], keep) :
     keep \in SUBSET DOMAIN locations}

\* fetchWeatherDataBatched(locations, batchSize) up to the first batch.  Every
\* call has its own locals: those of a call that returned are forgotten.
BatchedStart(w) ==
  /\ proc[w]["pc"] = "fetch"
  /\ proc[w]["cls"] = "grid"
  /\ batched["pc"] \in {"idle", "returned"}
  /\ LET locations == proc[w]["locs"]
         fresh == [IdleBatched EXCEPT !["batchSize"] = batched["batchSize"]]
     IN batched' =
          IF Len(locations) = 0
          THEN [fresh EXCEPT !["pc"] = "finished"]
          ELSE [fresh EXCEPT !["pc"] = "attempt",
                             !["locations"] = locations,
                             !["batches"] = batchArray(locations, batched["batchSize"]),
                             !["batchNum"] = 0,
                             !["retry"] = 0,
                             !["retryDelay"] = RetryDelayStart]
  /\ UNCHANGED <<current, history, now, proc, nfetch, nfault, enabled, cleaner, orch, retrier, meta>>

\* Variant: a batch that used up its attempts ends the whole fetch.
BatchAttemptAborting(w) ==
  /\ batched["pc"] = "attempt"
  /\ LET batchLocations == batched["batches"][batched["batchNum"] + 1]
         offset == batched["batchNum"] * batched["batchSize"]
     IN \E batchData \in BatchResults(batchLocations, offset, nfetch + 1) :
          LET logged == Append(batched["log"],
                               [ev |-> "request", batch |-> batched["batchNum"],
                                retry |-> batched["retry"], result |-> batchData])
          IN batched' =
               IF Len(batchData) > 0
               THEN [batched EXCEPT !["pc"] = "between", !["log"] = logged,
                                    !["allProcessedData"] = @ \o batchData]
               ELSE [batched EXCEPT !["log"] = logged,
                                    !["retry"] = @ + 1,
                                    !["pc"] = IF batched["retry"] + 1 < CollectorMaxRetries
                                              THEN "attempt" ELSE "finished"]
  /\ UNCHANGED <<current, history, now, proc, nfetch, nfault, enabled, cleaner, orch, retrier, meta>>

\* Variant: a batch is tried until it brings a result.
BatchAttemptNeverGivingUp(w) ==
  /\ batched["pc"] = "attempt"
  /\ LET batchLocations == batched["batches"][batched["batchNum"] + 1]
         offset == batched["batchNum"] * batched["batchSize"]
     IN \E batchData \in BatchResults(batchLocations, offset, nfetch + 1) :
          LET logged == Append(batched["log"],
                               [ev |-> "request", batch |-> batched["batchNum"],
                                retry |-> batched["retry"], result |-> batchData])
          IN batched' =
               IF Len(batchData) > 0
               THEN [batched EXCEPT !["pc"] = "between", !["log"] = logged,
                                    !["allProcessedData"] = @ \o batchData]
               ELSE [batched EXCEPT !["log"] = logged, !["retry"] = @ + 1]
  /\ UNCHANGED <<current, history, now, proc, nfetch, nfault, enabled, cleaner, orch, retrier, meta>>

\* One turn of the retry loop: batchData = await fetchWeatherDataBatch(...).
\* A non-empty result is pushed and ends the loop (break); an empty one is
\* logged and the loop goes on, at once, until retry reaches maxRetries.
\* (The catch block of the loop, with its sleep(retryDelay) and
\* retryDelay *= 2, is never entered: fetchWeatherDataBatch catches every
\* error of the request and returns [].)
BatchAttempt(w) ==
  /\ batched["pc"] = "attempt"
  /\ LET batchLocations == batched["batches"][batched["batchNum"] + 1]
         offset == batched["batchNum"] * batched["batchSize"]
     IN \E batchData \in BatchResults(batchLocations, offset, nfetch + 1) :
          LET logged == Append(batched["log"],
                               [ev |-> "request", batch |-> batched["batchNum"],
                                retry |-> batched["retry"], result |-> batchData])
          IN batched' =
               IF Len(batchData) > 0
               THEN [batched EXCEPT !["pc"] = "between", !["log"] = logged,
                                    !["allProcessedData"] = @ \o batchData]
               ELSE [batched EXCEPT !["log"] = logged,
                                    !["retry"] = @ + 1,
                                    !["pc"] = IF batched["retry"] + 1 < CollectorMaxRetries
                                              THEN "attempt" ELSE "between"]
  /\ UNCHANGED <<current, history, now, proc, nfetch, nfault, enabled, cleaner, orch, retrier, meta>>

\* Variant: no wait after a batch that was dropped.
BatchNextNoWaitAfterDrop(w) ==
  /\ batched["pc"] = "between"
  /\ batched["batchNum"] < Len(batched["batches"]) - 1
  /\ batched' = [batched EXCEPT
                   !["pc"] = "attempt",
                   !["log"] = IF batched["retry"] = CollectorMaxRetries THEN @
                              ELSE Append(@, [ev |-> "sleep", ms |-> RequestDelayMs * 10]),
                   !["batchNum"] = @ + 1,
                   !["retry"] = 0,
                   !["retryDelay"] = RetryDelayStart]
  /\ UNCHANGED <<current, history, now, proc, nfetch, nfault, enabled, cleaner, orch, retrier, meta>>

\* After the retry loop of a batch that is not the last:
\* sleep(config.collector.requestDelayMs * 10), then the next batch.
BatchNext(w) ==
  /\ batched["pc"] = "between"
  /\ batched["batchNum"] < Len(batched["batches"]) - 1
  /\ batched' = [batched EXCEPT
                   !["pc"] = "attempt",
                   !["log"] = Append(@, [ev |-> "sleep", ms |-> RequestDelayMs * 10]),
                   !["batchNum"] = @ + 1,
                   !["retry"] = 0,
                   !["retryDelay"] = RetryDelayStart]
  /\ UNCHANGED <<current, history, now, proc, nfetch, nfault, enabled, cleaner, orch, retrier, meta>>

\* After the last batch: return allProcessedData, and main()'s test of it.
BatchedReturn(w) ==
  /\ \/ batched["pc"] = "finished"
     \/ /\ batched["pc"] = "between"
        /\ ~(batched["batchNum"] < Len(batched["batches"]) - 1)
  /\ batched' = [batched EXCEPT !["pc"] = "returned"]
  /\ nfetch' = nfetch + 1
  /\ LET gridWeatherData == batched["allProcessedData"]
     IN proc' = IF Len(gridWeatherData) = 0 THEN Return(w, 1, "nodata")
                ELSE [proc EXCEPT ![w]["pc"] = "archFind", ![w]["locs"] = <<>>,
                                  ![w]["data"] = gridWeatherData,
                                  ![w]["successful"] = 0]
  /\ UNCHANGED <<current, history, now, nfault, enabled, cleaner, orch, retrier, meta>>

------------------------------------------------------------------------------
(* The archival-upsert writer *)

\* data.map(x => ({...x, updated_at: new Date()}))
Stamp(data) == [i \in DOMAIN data |-> Merge(data[i], [updated_at |-> now])]

\* Variants of the lookup: only the first written key is looked up; every
\* stored snapshot is returned.
ArchiveQueryFirstOnly(coll, data) ==
  SelectSeq(coll, LAMBDA d : Len(data) > 0 /\ d["key"] = data[1]["key"])

ArchiveQueryAll(coll, data) == coll

\* find({name: {$in: names}}) / find({$or: gridPoints}) / find({slug: {$in: slugs}})
ArchiveQuery(coll, data) == SelectSeq(coll, LAMBDA d : d["key"] \in KeysOf(data))

\* Variant: the history record is stamped but loses the weather payload.
HistoryDocNoPayload(doc) ==
  Merge(doc, [archived_at |-> now, original_updated_at |-> doc["updated_at"],
              weather_data |-> "null"])

\* {...doc, _id: undefined, archived_at: new Date(), original_updated_at: doc.updated_at}
HistoryDoc(doc) ==
  Merge(doc, [archived_at |-> now, original_updated_at |-> doc["updated_at"]])

\* After archive*Weather returned: city and port build their operations and
\* issue bulkWrite; grid issues deleteMany first.
AfterArchive(w) ==
  IF proc[w]["cls"] = "grid"
  THEN [proc EXCEPT ![w]["pc"] = "gridDelete", ![w]["historyDocs"] = <<>>]
  ELSE [proc EXCEPT ![w]["pc"] = "write", ![w]["historyDocs"] = <<>>,
                    ![w]["data"] = <<>>, ![w]["documents"] = Stamp(proc[w]["data"])]

\* Variant: the save alone decides the exit code.
ExitCodeZero(c, successful) == 0

\* main() after the save: the port collector returns successful > 0 ? 0 : 1,
\* the others 0.
ExitCodeAfterSave(c, successful) ==
  IF c = "port" /\ ~(successful > 0) THEN 1 ELSE 0

\* Variant: save*WeatherData without its test of the data.
ArchiveFindNoEmptyTest(w) ==
  /\ proc[w]["pc"] = "archFind"
  /\ \/ /\ Throws
        /\ proc' = Return(w, 1, "archive")
     \/ /\ LET currentData == ArchiveQuery(current[proc[w]["cls"]], proc[w]["data"])
           IN proc' =
                IF Len(currentData) = 0 THEN AfterArchive(w)
                ELSE [proc EXCEPT ![w]["pc"] = "archInsert",
                                  ![w]["seen"] = {currentData[i]["sid"] : i \in DOMAIN currentData},
                                  ![w]["historyDocs"] =
                                     [i \in DOMAIN currentData |-> HistoryDoc(currentData[i])]]
        /\ UNCHANGED nfault
  /\ UNCHANGED <<current, history, now, nfetch, enabled, batched, cleaner, orch, retrier, meta>>

\* save*WeatherData(data): with no data it returns at once (and main() goes on
\* to its exit code); otherwise archive*Weather makes the lookup of the stored
\* snapshots of the written keys.
ArchiveFind(w) ==
  /\ proc[w]["pc"] = "archFind"
  /\ IF Len(proc[w]["data"]) = 0
     THEN /\ proc' = Return(w, ExitCodeAfterSave(proc[w]["cls"], proc[w]["successful"]),
                           "nothing")
          /\ UNCHANGED nfault
     ELSE \/ /\ Throws
             /\ proc' = Return(w, 1, "archive")
          \/ /\ LET currentData == ArchiveQuery(current[proc[w]["cls"]], proc[w]["data"])
                IN proc' =
                     IF Len(currentData) = 0 THEN AfterArchive(w)
                     ELSE [proc EXCEPT ![w]["pc"] = "archInsert",
                                       ![w]["seen"] = {currentData[i]["sid"] : i \in DOMAIN currentData},
                                       ![w]["historyDocs"] =
                                          [i \in DOMAIN currentData |-> HistoryDoc(currentData[i])]]
             /\ UNCHANGED nfault
  /\ UNCHANGED <<current, history, now, nfetch, enabled, batched, cleaner, orch, retrier, meta>>

\* Variant: the insert replaces the collection.
InsertHistoryReplacing(hist, historyDocs) == historyDocs

\* History.insertMany(historyDocs)
InsertHistory(hist, historyDocs) == hist \o historyDocs

\* Variant: a failing insert is swallowed and the writer goes on.
ArchiveInsertSwallowing(w) ==
  /\ proc[w]["pc"] = "archInsert"
  /\ LET c == proc[w]["cls"]
         docs == proc[w]["historyDocs"]
     IN \/ /\ history' = [history EXCEPT ![c] = InsertHistory(history[c], docs)]
           /\ proc' = AfterArchive(w)
           /\ UNCHANGED nfault
        \/ /\ Throws
           /\ \E n \in 0..(Len(docs) - 1) :
                history' = [history EXCEPT ![c] = InsertHistory(history[c], Prefix(docs, n))]
           /\ proc' = AfterArchive(w)
  /\ UNCHANGED <<current, now, nfetch, enabled, batched, cleaner, orch, retrier, meta>>

\* archive*Weather: the insert into history.  A failing insertMany has
\* inserted a proper prefix of the documents.
ArchiveInsert(w) ==
  /\ proc[w]["pc"] = "archInsert"
  /\ LET c == proc[w]["cls"]
         docs == proc[w]["historyDocs"]
     IN \/ /\ history' = [history EXCEPT ![c] = InsertHistory(history[c], docs)]
           /\ proc' = AfterArchive(w)
           /\ UNCHANGED nfault
        \/ /\ Throws
           /\ \E n \in 0..(Len(docs) - 1) :
                history' = [history EXCEPT ![c] = InsertHistory(history[c], Prefix(docs, n))]
           /\ proc' = Return(w, 1, "archive")
  /\ UNCHANGED <<current, now, nfetch, enabled, batched, cleaner, orch, retrier, meta>>

\* updateOne({filter: {key}, update: {$set: doc}, upsert: true}): the first
\* document with the key gets the fields of doc and keeps its other fields;
\* when there is none, doc is inserted.
UpdateOne(coll, doc) ==
  LET hits == {i \in DOMAIN coll : coll[i]["key"] = doc["key"]}
  IN IF hits = {} THEN Append(coll, doc)
     ELSE LET i == CHOOSE j \in hits : \A h \in hits : j <= h
          IN [coll EXCEPT ![i] = Merge(coll[i], doc)]

RECURSIVE BulkWriteOps(_, _)
BulkWriteOps(coll, ops) ==
  IF Len(ops) = 0 THEN coll
  ELSE BulkWriteOps(UpdateOne(coll, Head(ops)), Tail(ops))

\* CityWeather.bulkWrite(operations) / PortWeather.bulkWrite(operations).  A
\* failing bulkWrite has applied a proper prefix of the operations.
BulkWrite(w) ==
  /\ proc[w]["pc"] = "write"
  /\ LET c == proc[w]["cls"]
         ops == proc[w]["documents"]
     IN \/ /\ current' = [current EXCEPT ![c] = BulkWriteOps(current[c], ops)]
           /\ proc' = Return(w, ExitCodeAfterSave(c, proc[w]["successful"]),
                            IF ExitCodeAfterSave(c, proc[w]["successful"]) = 0
                            THEN "none" ELSE "nosuccess")
           /\ UNCHANGED nfault
        \/ /\ Throws
           /\ \E n \in 0..(Len(ops) - 1) :
                current' = [current EXCEPT ![c] = BulkWriteOps(current[c], Prefix(ops, n))]
           /\ proc' = Return(w, 1, "write")
  /\ UNCHANGED <<history, now, nfetch, enabled, batched, cleaner, orch, retrier, meta>>

\* GridWeather.deleteMany({}), then the documents are built.
GridDelete(w) ==
  /\ proc[w]["pc"] = "gridDelete"
  /\ \/ /\ current' = [current EXCEPT !["grid"] = <<>>]
        /\ proc' = [proc EXCEPT ![w]["pc"] = "gridInsert", ![w]["data"] = <<>>,
                                ![w]["documents"] = Stamp(proc[w]["data"])]
        /\ UNCHANGED nfault
     \/ /\ Throws
        /\ proc' = Return(w, 1, "write")
        /\ UNCHANGED current
  /\ UNCHANGED <<history, now, nfetch, enabled, batched, cleaner, orch, retrier, meta>>

\* GridWeather.insertMany(documents)
GridInsert(w) ==
  /\ proc[w]["pc"] = "gridInsert"
  /\ LET docs == proc[w]["documents"]
     IN \/ /\ current' = [current EXCEPT !["grid"] = current["grid"] \o docs]
           /\ proc' = Return(w, 0, "none")
           /\ UNCHANGED nfault
        \/ /\ Throws
           /\ \E n \in 0..(Len(docs) - 1) :
                current' = [current EXCEPT !["grid"] = current["grid"] \o Prefix(docs, n)]
           /\ proc' = Return(w, 1, "write")
  /\ UNCHANGED <<history, now, nfetch, enabled, batched, cleaner, orch, retrier, meta>>

------------------------------------------------------------------------------
(* The metadata load *)

\* The built-in list of a class (defaultCities, the generated grid,
\* DEFAULT_PORTS): it is not empty.
DefaultLocations(c) == KeyOrder

\* A metadata document; located tells that it holds both coordinates.
MetaDoc(k, located) == [key |-> k, located |-> located]

\* metadata.filter(doc => coordinates != null).map(doc => ({name, lat, lon}))
Located(docs) ==
  LET kept == SelectSeq(docs, LAMBDA d : d["located"])
  IN [i \in DOMAIN kept |-> kept[i]["key"]]

\* The documents save*Metadata writes for the built-in list.
SeedDocs(c) ==
  [i \in DOMAIN DefaultLocations(c) |->
     Merge(MetaDoc(DefaultLocations(c)[i], TRUE), [updated_at |-> now])]

\* What save*Metadata(data) leaves in the collection when n of its documents
\* were written: saveCityMetadata and savePortMetadata upsert by identity;
\* saveGridMetadata deletes every document first (deleted tells that the
\* deleteMany was made) and inserts.
SaveMetadata(c, store, docs, n, deleted) ==
  IF c = "grid"
  THEN IF deleted THEN Prefix(docs, n) ELSE store
  ELSE BulkWriteOps(store, Prefix(docs, n))

\* load*(): the read of the metadata collection.  Documents were read: those
\* with coordinates are the list, and main() tests it.  The read threw, or
\* there is no document: the built-in list is taken and will be seeded.
LoadMetadata(w) ==
  /\ proc[w]["pc"] = "load"
  /\ \E threw \in BOOLEAN :
       /\ nfault' = IF threw THEN nfault + 1 ELSE nfault
       /\ LET c == proc[w]["cls"]
              metadata == meta[c]
          IN proc' =
               IF ~threw /\ Len(metadata) > 0
               THEN IF Len(Located(metadata)) = 0 THEN Return(w, 1, "nolocations")
                    ELSE [proc EXCEPT ![w]["pc"] = "fetch", ![w]["locs"] = Located(metadata)]
               ELSE [proc EXCEPT ![w]["pc"] = "seed", ![w]["locs"] = DefaultLocations(c)]
  /\ UNCHANGED <<current, history, now, nfetch, enabled, batched, cleaner, orch, retrier, meta>>

\* Variant: a seeding that throws ends the attempt with exit code 1.
SeedMetadataFailing(w) ==
  /\ proc[w]["pc"] = "seed"
  /\ LET c == proc[w]["cls"]
         docs == SeedDocs(c)
     IN \/ /\ meta' = [meta EXCEPT ![c] = SaveMetadata(c, meta[c], docs, Len(docs), TRUE)]
           /\ proc' = [proc EXCEPT ![w]["pc"] = "fetch"]
           /\ UNCHANGED nfault
        \/ /\ nfault' = nfault + 1
           /\ \E n \in 0..(Len(docs) - 1), deleted \in BOOLEAN :
                /\ (~deleted => n = 0)
                /\ meta' = [meta EXCEPT ![c] = SaveMetadata(c, meta[c], docs, n, deleted)]
           /\ proc' = Return(w, 1, "seed")
  /\ UNCHANGED <<current, history, now, nfetch, enabled, batched, cleaner, orch, retrier>>

\* load*(): save*Metadata of the built-in list inside its own try/catch, and
\* return of the list; main()'s test of the list passes.  A save that throws
\* has written a proper prefix of the documents (for the grid: nothing at
\* all when its deleteMany threw).
SeedMetadata(w) ==
  /\ proc[w]["pc"] = "seed"
  /\ LET c == proc[w]["cls"]
         docs == SeedDocs(c)
     IN \/ /\ meta' = [meta EXCEPT ![c] = SaveMetadata(c, meta[c], docs, Len(docs), TRUE)]
           /\ UNCHANGED nfault
        \/ /\ nfault' = nfault + 1
           /\ \E n \in 0..(Len(docs) - 1), deleted \in BOOLEAN :
                /\ (~deleted => n = 0)
                /\ meta' = [meta EXCEPT ![c] = SaveMetadata(c, meta[c], docs, n, deleted)]
  /\ proc' = [proc EXCEPT ![w]["pc"] = "fetch"]
  /\ UNCHANGED <<current, history, now, nfetch, enabled, batched, cleaner, orch, retrier>>

------------------------------------------------------------------------------
(* Retry of a class flow *)

\* delay = baseDelay * Math.pow(2, attempt - 1)
RetryDelay(attempt) == BaseDelay * Pow2(attempt - 1)

\* retryWithBackoff(fn, maxRetries, baseDelay) around collector.fn(): exit
\* code 0 ends the flow with success; another code is thrown, and the flow is
\* called again, after sleep(delay), unless this was attempt maxRetries.
AttemptEnd(w) ==
  /\ proc[w]["pc"] = "done"
  /\ IF proc[w]["ret"] # 0 /\ proc[w]["attempt"] < MaxRetries
     THEN proc' = [proc EXCEPT ![w] = [IdleProc EXCEPT
                     !["pc"] = "gate", !["cls"] = proc[w]["cls"],
                     !["freshAtStart"] = proc[w]["freshAtStart"],
                     !["delays"] = Append(proc[w]["delays"],
                                          RetryDelay(proc[w]["attempt"])),
                     !["attempt"] = proc[w]["attempt"] + 1]]
     ELSE proc' = [proc EXCEPT ![w] = IdleProc]
  /\ UNCHANGED <<current, history, now, nfetch, nfault, enabled, batched, cleaner, orch, retrier, meta>>

\* The values of baseDelay: the default of retryWithBackoff, the delay that
\* runCollectorWithRetry passes, and one more.
BaseDelays == {1, 1000, BaseDelay}

\* Variant: the delay grows by baseDelay with every attempt.
backoffDelayLinear(baseDelay, attempt) == baseDelay * attempt

\* delay = baseDelay * Math.pow(2, attempt - 1)
backoffDelay(baseDelay, attempt) == baseDelay * Pow2(attempt - 1)

\* retryWithBackoff(fn, maxRetries, baseDelay) is called: attempt = 1 and the
\* test attempt <= maxRetries of the loop; when it fails at once the function
\* returns undefined.
RetryStart(maxRetries, baseDelay) ==
  /\ retrier["pc"] = "idle"
  /\ retrier' = [retrier EXCEPT
                   !["maxRetries"] = maxRetries,
                   !["baseDelay"] = baseDelay,
                   !["attempt"] = 1,
                   !["pc"] = IF 1 <= maxRetries THEN "calling" ELSE "returned",
                   !["result"] = IF 1 <= maxRetries THEN @ ELSE [kind |-> "undefined"]]
  /\ UNCHANGED <<current, history, now, proc, nfetch, nfault, enabled, batched, cleaner, orch, meta>>

\* return await fn(), and the catch: fn returns a value, which is returned,
\* or throws; its error is thrown again when attempt === maxRetries, otherwise
\* the sleep follows.  The value and the error of a call carry its number.
RetryCall ==
  /\ retrier["pc"] = "calling"
  /\ \E ok \in BOOLEAN :
       retrier' = [retrier EXCEPT
                     !["log"] = Append(@, [ev |-> "call", attempt |-> retrier["attempt"],
                                           ok |-> ok]),
                     !["pc"] = IF ok THEN "returned"
                               ELSE IF retrier["attempt"] = retrier["maxRetries"]
                                    THEN "thrown" ELSE "sleeping",
                     !["result"] = IF ok THEN [kind |-> "value", of |-> retrier["attempt"]]
                                   ELSE IF retrier["attempt"] = retrier["maxRetries"]
                                        THEN [kind |-> "error", of |-> retrier["attempt"]]
                                        ELSE @]
  /\ UNCHANGED <<current, history, now, proc, nfetch, nfault, enabled, batched, cleaner, orch, meta>>

\* await sleep(delay), attempt++ and the test of the loop.
RetrySleep ==
  /\ retrier["pc"] = "sleeping"
  /\ retrier' = [retrier EXCEPT
                   !["log"] = Append(@, [ev |-> "sleep",
                                         ms |-> backoffDelay(retrier["baseDelay"],
                                                             retrier["attempt"])]),
                   !["attempt"] = @ + 1,
                   !["pc"] = IF retrier["attempt"] + 1 <= retrier["maxRetries"]
                             THEN "calling" ELSE "returned",
                   !["result"] = IF retrier["attempt"] + 1 <= retrier["maxRetries"]
                                 THEN @ ELSE [kind |-> "undefined"]]
  /\ UNCHANGED <<current, history, now, proc, nfetch, nfault, enabled, batched, cleaner, orch, meta>>

------------------------------------------------------------------------------
(* The orchestrator and the store connection *)

\* main(): await connectDatabase().  isConnected is false in a new process, so
\* mongoose.connect is called; when it throws, main()'s catch calls
\* disconnectDatabase(), which returns at once, and main() returns 1.
OrchConnect ==
  /\ orch["pc"] = "idle"
  /\ \/ /\ orch' = [orch EXCEPT !["pc"] = "loop", !["isConnected"] = TRUE,
                                !["connects"] = @ + 1, !["index"] = 1,
                                !["log"] = Append(@, [ev |-> "connect"])]
        /\ UNCHANGED nfault
     \/ /\ Throws
        /\ orch' = [orch EXCEPT !["pc"] = "exited", !["connects"] = @ + 1,
                                !["exit"] = 1]
  /\ UNCHANGED <<current, history, now, proc, nfetch, enabled, batched, cleaner, retrier, meta>>

\* for (const collector of COLLECTORS): runCollectorWithRetry(collector) is
\* called; enabled holds the class whose flow may start.
OrchRun ==
  /\ orch["pc"] = "loop"
  /\ orch["index"] <= Len(COLLECTORS)
  /\ enabled' = {COLLECTORS[orch["index"]]}
  /\ orch' = [orch EXCEPT !["pc"] = "call",
                          !["log"] = Append(@, [ev |-> "start",
                                                cls |-> COLLECTORS[orch["index"]]])]
  /\ UNCHANGED <<current, history, now, proc, nfetch, nfault, batched, cleaner, retrier, meta>>

\* Variant: the pause is made after the last collector too.
OrchCollectAlwaysPausing ==
  /\ orch["pc"] = "call"
  /\ proc[1]["pc"] = "done"
  /\ ~(proc[1]["ret"] # 0 /\ proc[1]["attempt"] < MaxRetries)
  /\ LET success == (proc[1]["ret"] = 0)
         collector == COLLECTORS[orch["index"]]
     IN orch' = [orch EXCEPT
                   !["pc"] = "loop",
                   !["index"] = @ + 1,
                   !["results"] = Append(@, [name |-> collector, success |-> success,
                                             err |-> proc[1]["err"]]),
                   !["log"] = @ \o <<[ev |-> "end", cls |-> collector]>>
                                \o <<[ev |-> "pause", ms |-> PauseMs]>>]
  /\ proc' = [proc EXCEPT ![1] = IdleProc]
  /\ enabled' = {}
  /\ UNCHANGED <<current, history, now, nfetch, nfault, batched, cleaner, retrier, meta>>

\* Variant: a collector that failed ends the loop.
OrchCollectStoppingOnFailure ==
  /\ orch["pc"] = "call"
  /\ proc[1]["pc"] = "done"
  /\ ~(proc[1]["ret"] # 0 /\ proc[1]["attempt"] < MaxRetries)
  /\ LET success == (proc[1]["ret"] = 0)
         collector == COLLECTORS[orch["index"]]
     IN orch' = [orch EXCEPT
                   !["pc"] = "loop",
                   !["index"] = IF success THEN @ + 1 ELSE Len(COLLECTORS) + 1,
                   !["results"] = Append(@, [name |-> collector, success |-> success,
                                             err |-> proc[1]["err"]]),
                   !["log"] = @ \o <<[ev |-> "end", cls |-> collector]>>
                                \o (IF collector # COLLECTORS[Len(COLLECTORS)] /\ success
                                    THEN <<[ev |-> "pause", ms |-> PauseMs]>>
                                    ELSE <<>>)]
  /\ proc' = [proc EXCEPT ![1] = IdleProc]
  /\ enabled' = {}
  /\ UNCHANGED <<current, history, now, nfetch, nfault, batched, cleaner, retrier, meta>>

\* runCollectorWithRetry returns: true when retryWithBackoff returned (an
\* attempt's exit code was 0), false when it threw (attempt maxRetries
\* failed); results.push({name, success}); then the 5 s pause, unless the
\* collector is the last.  (err, the reason the last attempt gave for its exit
\* code, is kept for the properties and read by no action.)
OrchCollect ==
  /\ orch["pc"] = "call"
  /\ proc[1]["pc"] = "done"
  /\ ~(proc[1]["ret"] # 0 /\ proc[1]["attempt"] < MaxRetries)
  /\ LET success == (proc[1]["ret"] = 0)
         collector == COLLECTORS[orch["index"]]
     IN orch' = [orch EXCEPT
                   !["pc"] = "loop",
                   !["index"] = @ + 1,
                   !["results"] = Append(@, [name |-> collector, success |-> success,
                                             err |-> proc[1]["err"]]),
                   !["log"] = @ \o <<[ev |-> "end", cls |-> collector]>>
                                \o (IF collector # COLLECTORS[Len(COLLECTORS)]
                                    THEN <<[ev |-> "pause", ms |-> PauseMs]>>
                                    ELSE <<>>)]
  /\ proc' = [proc EXCEPT ![1] = IdleProc]
  /\ enabled' = {}
  /\ UNCHANGED <<current, history, now, nfetch, nfault, batched, cleaner, retrier, meta>>

\* successCount === totalCount ? 0 : 1
OrchExitCode(results) ==
  IF Cardinality({i \in DOMAIN results : results[i]["success"]}) = Len(results)
  THEN 0 ELSE 1

\* After the loop: the summary, await disconnectDatabase(), and the exit
\* code.  disconnectDatabase() returns at once when isConnected is false.
\* When mongoose.disconnect throws, main()'s catch calls disconnectDatabase()
\* once more (isConnected is still true), ignores what that call does, and
\* returns 1.
OrchFinish ==
  /\ orch["pc"] = "loop"
  /\ orch["index"] > Len(COLLECTORS)
  /\ \/ /\ ~orch["isConnected"]
        /\ orch' = [orch EXCEPT !["pc"] = "exited",
                                !["exit"] = OrchExitCode(orch["results"])]
        /\ UNCHANGED nfault
     \/ /\ orch["isConnected"]
        /\ orch' = [orch EXCEPT !["pc"] = "exited", !["isConnected"] = FALSE,
                                !["disconnects"] = @ + 1,
                                !["log"] = Append(@, [ev |-> "disconnect"]),
                                !["exit"] = OrchExitCode(orch["results"])]
        /\ UNCHANGED nfault
     \/ /\ orch["isConnected"]
        /\ Throws
        /\ \E again \in BOOLEAN :
             orch' = [orch EXCEPT !["pc"] = "exited", !["isConnected"] = ~again,
                                  !["disconnects"] = @ + 2,
                                  !["log"] = Append(@, [ev |-> "disconnect"]),
                                  !["exit"] = 1]
  /\ UNCHANGED <<current, history, now, proc, nfetch, enabled, batched, cleaner, retrier, meta>>

\* mongoose.connection.on('error' / 'disconnected'): the driver reports the
\* connection lost while the orchestrator runs; isConnected = false.
ConnLost ==
  /\ orch["pc"] \in {"loop", "call"}
  /\ orch["isConnected"]
  /\ Throws
  /\ orch' = [orch EXCEPT !["isConnected"] = FALSE, !["lost"] = TRUE]
  /\ UNCHANGED <<current, history, now, proc, nfetch, enabled, batched, cleaner, retrier, meta>>

\* mongoose.connection.on('reconnected'): isConnected = true.
ConnReconnected ==
  /\ orch["pc"] \in {"loop", "call"}
  /\ orch["lost"]
  /\ ~orch["isConnected"]
  /\ orch' = [orch EXCEPT !["isConnected"] = TRUE]
  /\ UNCHANGED <<current, history, now, proc, nfetch, nfault, enabled, batched, cleaner, retrier, meta>>

\* Variant: connectDatabase() without its test of isConnected; every call
\* opens a connection.
CollectorConnectAlways(w) ==
  /\ proc[w]["pc"] = "gate"
  /\ orch["connects"] < MaxRetries * Len(COLLECTORS)
  /\ \/ /\ orch' = [orch EXCEPT !["isConnected"] = TRUE, !["connects"] = @ + 1,
                                !["log"] = Append(@, [ev |-> "connect"])]
        /\ UNCHANGED proc
     \/ /\ orch' = [orch EXCEPT !["connects"] = @ + 1]
        /\ proc' = Return(w, 1, "connect")
  /\ UNCHANGED <<current, history, now, nfetch, nfault, enabled, batched, cleaner, retrier, meta>>

\* main() of a collector: await connectDatabase() while isConnected is false:
\* mongoose.connect is called again; when it throws, main()'s catch returns 1.
\* (While isConnected is true connectDatabase() returns at once, and the
\* attempt goes on to its gate.)
CollectorConnect(w) ==
  /\ proc[w]["pc"] = "gate"
  /\ ~orch["isConnected"]
  /\ \/ /\ orch' = [orch EXCEPT !["isConnected"] = TRUE, !["connects"] = @ + 1,
                                !["log"] = Append(@, [ev |-> "connect"])]
        /\ UNCHANGED proc
     \/ /\ orch' = [orch EXCEPT !["connects"] = @ + 1]
        /\ proc' = Return(w, 1, "connect")
  /\ UNCHANGED <<current, history, now, nfetch, nfault, enabled, batched, cleaner, retrier, meta>>

------------------------------------------------------------------------------
(* The retention cleanup *)

\* Variant: a record archived exactly at the cutoff is deleted too.
DeleteOlderInclusive(hist, cutoff) == SelectSeq(hist, LAMBDA h : h["archived_at"] > cutoff)

\* Variant: the oldest record is deleted whatever its age.
DeleteOlderAndFirst(hist, cutoff) ==
  SelectSeq(IF Len(hist) = 0 THEN hist ELSE Tail(hist), LAMBDA h : h["archived_at"] >= cutoff)

\* History.deleteMany({archived_at: {$lt: cutoffDate}})
DeleteOlder(hist, cutoff) == SelectSeq(hist, LAMBDA h : h["archived_at"] >= cutoff)

\* cleanupOldHistory(daysToKeep): the three deleteMany; those of the classes
\* in failed throw and delete nothing.
Cleanup(daysToKeep, failed) ==
  /\ \A w \in Workers : proc[w]["pc"] = "idle"
  /\ IF failed = {} THEN UNCHANGED nfault ELSE Throws
  /\ LET cutoffDate == now - daysToKeep * HoursPerDay
     IN history' = [c \in Classes |->
                      IF c \in failed THEN history[c] ELSE DeleteOlder(history[c], cutoffDate)]
  /\ UNCHANGED <<current, now, proc, nfetch, enabled, batched, cleaner, orch, retrier, meta>>

\* cleanupOldHistory(daysToKeep) step by step, called by main() of the cleanup
\* utility.  cutoffDate is computed, then the three deleteMany are issued
\* together inside Promise.all: all three are outstanding at once.
CleanupStart(daysToKeep) ==
  /\ cleaner["pc"] \in {"idle", "returned"}
  /\ cleaner["pending"] = {}
  /\ cleaner["runs"] < MaxCleanupRuns
  /\ cleaner' = [IdleCleaner EXCEPT
                   !["pc"] = "deleting",
                   !["cutoffDate"] = now - daysToKeep * HoursPerDay,
                   !["pending"] = Classes,
                   !["runs"] = cleaner["runs"] + 1,
                   !["before"] = history,
                   !["lastResult"] = cleaner["result"],
                   !["lastCutoff"] = cleaner["cutoffDate"]]
  /\ UNCHANGED <<current, history, now, proc, nfetch, nfault, enabled, batched, orch, retrier, meta>>

\* One of the outstanding deleteMany completes, or throws and deletes nothing.
DeleteMany(c) ==
  /\ c \in cleaner["pending"]
  /\ \/ /\ history' = [history EXCEPT ![c] = DeleteOlder(history[c], cleaner["cutoffDate"])]
        /\ cleaner' = [cleaner EXCEPT
                         !["pending"] = @ \ {c},
                         !["deletedCount"][c] = Len(history[c]) - Len(history'[c])]
        /\ UNCHANGED nfault
     \/ /\ Throws
        /\ cleaner' = [cleaner EXCEPT !["pending"] = @ \ {c}, !["failed"] = @ \cup {c}]
        /\ UNCHANGED history
  /\ UNCHANGED <<current, now, proc, nfetch, enabled, batched, orch, retrier, meta>>

\* Promise.all settles: it resolves when the three deleteMany have completed,
\* and cleanupOldHistory returns the counts (main() returns 0); it rejects as
\* soon as one deleteMany throws, and cleanupOldHistory throws with it: no
\* count reaches the caller (main()'s catch returns 1), while the deleteMany
\* still outstanding go on.
CleanupReturn ==
  /\ cleaner["pc"] = "deleting"
  /\ cleaner["failed"] # {} \/ cleaner["pending"] = {}
  /\ cleaner' = [cleaner EXCEPT
                   !["pc"] = "returned",
                   !["result"] =
                      IF cleaner["failed"] # {} THEN NoResult
                      ELSE [ok |-> TRUE,
                            city |-> cleaner["deletedCount"]["city"],
                            grid |-> cleaner["deletedCount"]["grid"],
                            port |-> cleaner["deletedCount"]["port"],
                            total |-> cleaner["deletedCount"]["city"]
                                        + cleaner["deletedCount"]["grid"]
                                        + cleaner["deletedCount"]["port"]],
                   !["exit"] = IF cleaner["failed"] # {} THEN 1 ELSE 0]
  /\ UNCHANGED <<current, history, now, proc, nfetch, nfault, enabled, batched, orch, retrier, meta>>

------------------------------------------------------------------------------

Tick ==
  /\ \E d \in TickSteps : now + d <= MaxClock /\ now' = now + d
  /\ UNCHANGED <<current, history, proc, nfetch, nfault, enabled, batched, cleaner, orch, retrier, meta>>

Step(w) ==
  \/ \E c \in Classes : StartFlow(w, c)
  \/ CheckFreshness(w)
  \/ LoadLocations(w)
  \/ Fetch(w)
  \/ ArchiveFind(w)
  \/ ArchiveInsert(w)
  \/ BulkWrite(w)
  \/ GridDelete(w)
  \/ GridInsert(w)
  \/ AttemptEnd(w)

\* The pipeline as designed: one process, the sole writer of the store; the
\* retention cleaner runs when no flow is in progress.
Next ==
  \/ Step(1)
  \/ \E d \in DaysToKeepChoices, failed \in SUBSET Classes : Cleanup(d, failed)
  \/ Tick

Spec == Init /\ [][Next]_vars

\* Two pipeline processes against the same store (two overlapping invocations
\* of the city collector): their store operations interleave.  The store holds
\* the snapshots of one completed run, which have gone stale; no store
\* operation throws in this specification.
InitConc ==
  /\ enabled = {"city"}
  /\ current = [c \in Classes |->
                  IF c = "city"
                  THEN [i \in DOMAIN KeyOrder |->
                          [key |-> KeyOrder[i], sid |-> <<1, i>>, weather_data |-> "wx",
                           fetched_at |-> 0, updated_at |-> 0]]
                  ELSE <<>>]
  /\ history = [c \in Classes |-> <<>>]
  /\ now = FreshnessCity + 1
  /\ proc = [w \in Workers |-> IdleProc]
  /\ nfetch = 1
  /\ nfault = MaxFaults
  /\ batched = IdleBatched
  /\ cleaner = IdleCleaner
  /\ orch = IdleOrch
  /\ retrier = IdleRetrier
  /\ meta = [c \in Classes |-> <<>>]

NextConc ==
  \/ \E w \in Workers, c \in Classes : StartFlow(w, c)
  \/ \E w \in Workers : CheckFreshness(w)
  \/ \E w \in Workers : LoadLocations(w)
  \/ \E w \in Workers : Fetch(w)
  \/ \E w \in Workers : ArchiveFind(w)
  \/ \E w \in Workers : ArchiveInsert(w)
  \/ \E w \in Workers : BulkWrite(w)
  \/ \E w \in Workers : AttemptEnd(w)

SpecConc == InitConc /\ [][NextConc]_vars

\* The grid collector from its call of fetchWeatherDataBatched on: a list of
\* 1..MaxLocations distinct grid points, any batch size 1..MaxBatchSize, an
\* empty store; the batches' requests fail or succeed in any way; no store
\* operation throws.
InitBatch ==
  /\ enabled = {"grid"}
  /\ current = [c \in Classes |-> <<>>]
  /\ history = [c \in Classes |-> <<>>]
  /\ now = 0
  /\ \E n \in 1..MaxLocations :
       proc = [w \in Workers |->
                 IF w = 1
                 THEN [IdleProc EXCEPT !["pc"] = "fetch", !["cls"] = "grid",
                                       !["attempt"] = 1,
                                       !["locs"] = [i \in 1..n |-> i]]
                 ELSE IdleProc]
  /\ nfetch = 0
  /\ nfault = MaxFaults
  /\ \E size \in 1..MaxBatchSize : batched = [IdleBatched EXCEPT !["batchSize"] = size]
  /\ cleaner = IdleCleaner
  /\ orch = IdleOrch
  /\ retrier = IdleRetrier
  /\ meta = [c \in Classes |-> <<>>]

NextBatch ==
  \/ BatchedStart(1)
  \/ BatchAttempt(1)
  \/ BatchNext(1)
  \/ BatchedReturn(1)
  \/ ArchiveFind(1)
  \/ GridDelete(1)
  \/ GridInsert(1)

SpecBatch == InitBatch /\ [][NextBatch]_vars

\* One multi-location request alone: a list of 1..MaxRequest locations of
\* the city or the grid class, and every response of up to one entry more.
InitFetch ==
  /\ enabled \in {{"city"}, {"grid"}}
  /\ current = [c \in Classes |-> <<>>]
  /\ history = [c \in Classes |-> <<>>]
  /\ now = 0
  /\ \E n \in 1..MaxRequest :
       proc = [w \in Workers |->
                 IF w = 1
                 THEN [IdleProc EXCEPT !["pc"] = "fetch",
                                       !["cls"] = CHOOSE c \in enabled : TRUE,
                                       !["attempt"] = 1,
                                       !["locs"] = [i \in 1..n |-> i]]
                 ELSE IdleProc]
  /\ nfetch = 0
  /\ nfault = MaxFaults
  /\ batched = IdleBatched
  /\ cleaner = IdleCleaner
  /\ orch = IdleOrch
  /\ retrier = IdleRetrier
  /\ meta = [c \in Classes |-> <<>>]

NextFetch == FetchOnce(1)

SpecFetch == InitFetch /\ [][NextFetch]_vars

\* The port collector's loop alone: a list of 1..MaxPorts ports (slugs are
\* unique in port_metadata), every request free to succeed, to be answered
\* without data or to throw.
InitPorts ==
  /\ enabled = {"port"}
  /\ current = [c \in Classes |-> <<>>]
  /\ history = [c \in Classes |-> <<>>]
  /\ now = 0
  /\ \E n \in 1..MaxPorts :
       proc = [w \in Workers |->
                 IF w = 1
                 THEN [IdleProc EXCEPT !["pc"] = "fetch", !["cls"] = "port",
                                       !["attempt"] = 1,
                                       !["locs"] = [i \in 1..n |-> i]]
                 ELSE IdleProc]
  /\ nfetch = 0
  /\ nfault = MaxFaults
  /\ batched = IdleBatched
  /\ cleaner = IdleCleaner
  /\ orch = IdleOrch
  /\ retrier = IdleRetrier
  /\ meta = [c \in Classes |-> <<>>]

NextPorts ==
  \/ PortLoopStep(1)
  \/ PortLoopEnd(1)

SpecPorts == InitPorts /\ [][NextPorts]_vars

\* The retention cleaner alone, run up to MaxCleanupRuns times in a row on
\* history collections that hold records archived 100, 90, 50 and 10 days
\* ago, or some of them; the clock stands still; a deleteMany may throw.
ArchiveDays == <<-100, -90, -50, -10>>

CleanupDaysToKeep == {90, 50}

ArchivedRecord(i) ==
  [key |-> "k1", sid |-> <<0, i>>, weather_data |-> "wx", fetched_at |-> ArchiveDays[i] * HoursPerDay,
   updated_at |-> ArchiveDays[i] * HoursPerDay,
   original_updated_at |-> ArchiveDays[i] * HoursPerDay,
   archived_at |-> ArchiveDays[i] * HoursPerDay]

ArchivedLists ==
  {SubList([i \in DOMAIN ArchiveDays |-> ArchivedRecord(i)], keep) :
     keep \in SUBSET DOMAIN ArchiveDays}

InitCleanup ==
  /\ enabled = {}
  /\ current = [c \in Classes |-> <<>>]
  /\ history \in [Classes -> ArchivedLists]
  /\ now = 0
  /\ proc = [w \in Workers |-> IdleProc]
  /\ nfetch = 0
  /\ nfault = 0
  /\ batched = IdleBatched
  /\ cleaner = IdleCleaner
  /\ orch = IdleOrch
  /\ retrier = IdleRetrier
  /\ meta = [c \in Classes |-> <<>>]

NextCleanup ==
  \/ \E daysToKeep \in CleanupDaysToKeep : CleanupStart(daysToKeep)
  \/ \E c \in Classes : DeleteMany(c)
  \/ CleanupReturn

SpecCleanup == InitCleanup /\ [][NextCleanup]_vars

\* The freshness gate alone: a class's collector is started against a store
\* whose snapshots were fetched at any of the times in GateTimes (-1: the
\* document holds no fetched_at), at any clock value; no store operation
\* throws.
GateTimes == {-1, 0, 1}

GateDoc(k, i, t) ==
  IF t = -1 THEN [key |-> k, sid |-> <<0, i>>, weather_data |-> "wx", updated_at |-> 0]
  ELSE [key |-> k, sid |-> <<0, i>>, weather_data |-> "wx", fetched_at |-> t,
        updated_at |-> t]

GateCollections ==
  UNION {{[i \in DOMAIN locs |-> GateDoc(locs[i], i, ts[i])] :
            ts \in [DOMAIN locs -> GateTimes]} : locs \in MetaLists("city")}

InitGate ==
  /\ enabled \in {{c} : c \in Classes}
  /\ \E coll \in GateCollections :
       current = [c \in Classes |-> IF c \in enabled THEN coll ELSE <<>>]
  /\ history = [c \in Classes |-> <<>>]
  /\ now \in 0..MaxGateClock
  /\ proc = [w \in Workers |-> IdleProc]
  /\ nfetch = 0
  /\ nfault = MaxFaults
  /\ batched = IdleBatched
  /\ cleaner = IdleCleaner
  /\ orch = IdleOrch
  /\ retrier = IdleRetrier
  /\ meta = [c \in Classes |-> <<>>]

NextGate ==
  \/ \E c \in Classes : StartFlow(1, c)
  \/ CheckFreshness(1)

SpecGate == InitGate /\ [][NextGate]_vars

\* One run of the orchestrator: the three class flows on a store whose
\* current collections are empty or hold one fresh snapshot; a metadata list
\* has at most one location; one fault (a connect, a store operation or a
\* disconnect that throws, or a lost connection) may happen.
OrchCollections == {<<>>, <<GateDoc("k1", 1, 0)>>}

InitOrch ==
  /\ enabled = {}
  /\ current \in [Classes -> OrchCollections]
  /\ history = [c \in Classes |-> <<>>]
  /\ now = 0
  /\ proc = [w \in Workers |-> IdleProc]
  /\ nfetch = 0
  /\ nfault = 0
  /\ batched = IdleBatched
  /\ cleaner = IdleCleaner
  /\ orch = IdleOrch
  /\ retrier = IdleRetrier
  /\ meta = [c \in Classes |-> <<>>]

NextOrch ==
  \/ OrchConnect
  \/ OrchRun
  \/ \E c \in Classes : StartFlow(1, c)
  \/ CollectorConnect(1)
  \/ orch["isConnected"] /\ CheckFreshness(1)
  \/ LoadLocations(1) /\ proc'[1]["locs"] \in {<<>>, <<"k1">>}
  \/ Fetch(1)
  \/ ArchiveFind(1)
  \/ ArchiveInsert(1)
  \/ BulkWrite(1)
  \/ GridDelete(1)
  \/ GridInsert(1)
  \/ (proc[1]["ret"] # 0 /\ proc[1]["attempt"] < MaxRetries) /\ AttemptEnd(1)
  \/ OrchCollect
  \/ OrchFinish
  \/ ConnLost
  \/ ConnReconnected

SpecOrch == InitOrch /\ [][NextOrch]_vars

\* One call of save*WeatherData alone, on a store that holds a snapshot of
\* each location: the data are no snapshots at all, or the snapshots a fetch
\* of the two locations (in either order) can bring; a store operation may
\* throw.
StoredSnapshots ==
  [i \in DOMAIN KeyOrder |->
     [key |-> KeyOrder[i], sid |-> <<0, i>>, weather_data |-> "wx",
      fetched_at |-> 0, updated_at |-> 0]]

\* The location lists whose snapshots are written: the two locations in
\* either order.
SaveLists == {KeyOrder, <<KeyOrder[2], KeyOrder[1]>>}

InitSave ==
  /\ enabled \in {{c} : c \in Classes}
  /\ current = [c \in Classes |-> StoredSnapshots]
  /\ history = [c \in Classes |-> <<>>]
  /\ now = 1
  /\ \E c \in enabled :
       \E data \in UNION {FetchResults(c, locs, 1) : locs \in SaveLists} :
         proc = [w \in Workers |->
                   IF w = 1
                   THEN [IdleProc EXCEPT !["pc"] = "archFind", !["cls"] = c,
                                         !["attempt"] = 1, !["data"] = data,
                                         !["successful"] = Successful(data)]
                   ELSE IdleProc]
  /\ nfetch = 1
  /\ nfault = 0
  /\ batched = IdleBatched
  /\ cleaner = IdleCleaner
  /\ orch = IdleOrch
  /\ retrier = IdleRetrier
  /\ meta = [c \in Classes |-> <<>>]

NextSave ==
  \/ ArchiveFind(1)
  \/ ArchiveInsert(1)
  \/ BulkWrite(1)
  \/ GridDelete(1)
  \/ GridInsert(1)

SpecSave == InitSave /\ [][NextSave]_vars

\* One attempt of a collector from its gate to its fetch, the metadata load
\* step by step: the class's data are missing, stale or fresh, the metadata
\* collection holds up to MaxLen documents with or without coordinates, and
\* the read of the latest fetch time, the read of the metadata and the
\* seeding may each throw.
MetaStores ==
  UNION {{[i \in DOMAIN locs |-> MetaDoc(locs[i], ld[i])] : ld \in [DOMAIN locs -> BOOLEAN]} :
           locs \in MetaLists("city")}

LoadCollections == {<<>>, StoredSnapshots}

InitLoad ==
  /\ enabled \in {{c} : c \in Classes}
  /\ \E c \in enabled :
       /\ \E coll \in LoadCollections :
            current = [d \in Classes |-> IF d = c THEN coll ELSE <<>>]
       /\ \E store \in MetaStores :
            meta = [d \in Classes |-> IF d = c THEN store ELSE <<>>]
       /\ proc = [w \in Workers |->
                    IF w = 1
                    THEN [IdleProc EXCEPT !["pc"] = "gate", !["cls"] = c, !["attempt"] = 1]
                    ELSE IdleProc]
  /\ history = [c \in Classes |-> <<>>]
  /\ now \in {0, FreshnessGrid + 1}
  /\ nfetch = 0
  /\ nfault = 0
  /\ batched = IdleBatched
  /\ cleaner = IdleCleaner
  /\ orch = IdleOrch
  /\ retrier = IdleRetrier

NextLoad ==
  \/ CheckFreshness(1)
  \/ LoadMetadata(1)
  \/ SeedMetadata(1)
  \/ Fetch(1)

SpecLoad == InitLoad /\ [][NextLoad]_vars

\* A whole run of the orchestrator on an empty store, the grid class fetching
\* in batches: a class has locations or none (two grid points, one city, one
\* port), the batches are of 1..MaxLen locations, every request is free to
\* fail, and up to MaxFaults store operations throw.
RunLists(c) == IF c = "grid" THEN {<<>>, <<"k1", "k2">>} ELSE {<<>>, <<"k1">>}

InitRun ==
  /\ enabled = {}
  /\ current = [c \in Classes |-> <<>>]
  /\ history = [c \in Classes |-> <<>>]
  /\ now = 0
  /\ proc = [w \in Workers |-> IdleProc]
  /\ nfetch = 0
  /\ nfault = 0
  /\ \E size \in 1..MaxLen : batched = [IdleBatched EXCEPT !["batchSize"] = size]
  /\ cleaner = IdleCleaner
  /\ orch = IdleOrch
  /\ retrier = IdleRetrier
  /\ meta = [c \in Classes |-> <<>>]

\* The steps of the program: every one is a call that returns or fails.
RunStep ==
  \/ OrchConnect
  \/ OrchRun
  \/ \E c \in Classes : StartFlow(1, c)
  \/ CollectorConnect(1)
  \/ orch["isConnected"] /\ CheckFreshness(1)
  \/ LoadLocations(1) /\ proc'[1]["locs"] \in RunLists(proc[1]["cls"])
  \/ proc[1]["cls"] # "grid" /\ Fetch(1)
  \/ BatchedStart(1)
  \/ BatchAttempt(1)
  \/ BatchNext(1)
  \/ BatchedReturn(1)
  \/ ArchiveFind(1)
  \/ ArchiveInsert(1)
  \/ BulkWrite(1)
  \/ GridDelete(1)
  \/ GridInsert(1)
  \/ (proc[1]["ret"] # 0 /\ proc[1]["attempt"] < MaxRetries) /\ AttemptEnd(1)
  \/ OrchCollect
  \/ OrchFinish

\* The steps of the driver, which may or may not happen.
DriverStep == ConnLost \/ ConnReconnected

NextRun == RunStep \/ DriverStep

\* Every call of the program eventually returns or fails: a step of the
\* program that stays possible is eventually taken.
SpecRun == InitRun /\ [][NextRun]_vars /\ WF_vars(RunStep)

\* retryWithBackoff alone, for maxRetries in 0..MaxRetryCount and the delays
\* of BaseDelays, every call of fn free to return or to throw.
InitRetry ==
  /\ enabled = {}
  /\ current = [c \in Classes |-> <<>>]
  /\ history = [c \in Classes |-> <<>>]
  /\ now = 0
  /\ proc = [w \in Workers |-> IdleProc]
  /\ nfetch = 0
  /\ nfault = MaxFaults
  /\ batched = IdleBatched
  /\ cleaner = IdleCleaner
  /\ orch = IdleOrch
  /\ retrier = IdleRetrier
  /\ meta = [c \in Classes |-> <<>>]

NextRetry ==
  \/ \E maxRetries \in 0..MaxRetryCount, baseDelay \in BaseDelays :
       RetryStart(maxRetries, baseDelay)
  \/ RetryCall
  \/ RetrySleep

SpecRetry == InitRetry /\ [][NextRetry]_vars

\* batchArray alone, as fetchWeatherDataBatched calls it: a list of
\* 0..MaxLocations locations and any batch size of BatchSizes.  The call is
\* synchronous code: once called, the loop runs on.
InitSlice ==
  /\ enabled = {"grid"}
  /\ current = [c \in Classes |-> <<>>]
  /\ history = [c \in Classes |-> <<>>]
  /\ now = 0
  /\ proc = [w \in Workers |-> IdleProc]
  /\ nfetch = 0
  /\ nfault = MaxFaults
  /\ \E n \in 0..MaxLocations, size \in BatchSizes :
       batched = [IdleBatched EXCEPT !["locations"] = [k \in 1..n |-> k],
                                     !["batchSize"] = size]
  /\ cleaner = IdleCleaner
  /\ orch = IdleOrch
  /\ retrier = IdleRetrier
  /\ meta = [c \in Classes |-> <<>>]

NextSlice ==
  \/ BatchArrayCall
  \/ BatchArrayStep
  \/ BatchArrayReturn

SpecSlice == InitSlice /\ [][NextSlice]_vars /\ WF_vars(NextSlice)

------------------------------------------------------------------------------
(* Vocabulary of the properties *)

\* The snapshot a history record was copied from.
StripHistory(h) == [f \in DOMAIN h \ {"archived_at", "original_updated_at"} |-> h[f]]

\* h is the snapshot d plus archived_at and original_updated_at.
IsCopyOf(h, d) ==
  /\ DOMAIN h = DOMAIN d \cup {"archived_at", "original_updated_at"}
  /\ StripHistory(h) = d
  /\ h["original_updated_at"] = d["updated_at"]

HasCopy(hist, d) == \E j \in DOMAIN hist : IsCopyOf(hist[j], d)

\* The identity keys of the snapshot set that process w is writing.
WrittenKeys(w) == KeysOf(proc[w]["data"]) \cup KeysOf(proc[w]["documents"])

\* Process w takes a step that changes the current collection of its class.
Mutates(w) ==
  /\ proc[w]["pc"] \in {"write", "gridDelete", "gridInsert"}
  /\ proc'[w] # proc[w]
  /\ current'[proc[w]["cls"]] # current[proc[w]["cls"]]

------------------------------------------------------------------------------
(* C1: archival before write.  Whenever a save*WeatherData call changes   *)
(* the current collection, the history collection already holds, from an  *)
(* insert that completed in an earlier step, a record equal to every      *)
(* stored snapshot of the written keys (plus archived_at and              *)
(* original_updated_at): the first snapshot is in history at the moment   *)
(* the second becomes current.                                            *)

C1_ArchiveBeforeWrite ==
  [][\A w \in Workers :
       Mutates(w) =>
         /\ history' = history
         /\ \A i \in DOMAIN current[proc[w]["cls"]] :
              current[proc[w]["cls"]][i]["key"] \in WrittenKeys(w)
                => HasCopy(history[proc[w]["cls"]], current[proc[w]["cls"]][i])]_vars

\* A second snapshot of a key is current and the first is in history.
C1_Witness ==
  \E c \in Classes : \E i \in DOMAIN current[c], j \in DOMAIN history[c] :
    /\ history[c][j]["key"] = current[c][i]["key"]
    /\ history[c][j]["sid"][1] < current[c][i]["sid"][1]

------------------------------------------------------------------------------
(* C2: a throwing archival step (the lookup or the insert into history)   *)
(* leaves the current collection as it was, no step of the archival       *)
(* changes it, and the collector attempt ends at once with exit code 1.   *)

C2_ArchivalFailureAborts ==
  [][\A w \in Workers :
       (proc[w]["pc"] \in {"archFind", "archInsert"} /\ proc'[w] # proc[w]) =>
         /\ current' = current
         /\ nfault' # nfault =>
              /\ proc'[w]["pc"] = "done"
              /\ proc'[w]["ret"] = 1
              /\ proc'[w]["err"] = "archive"]_vars

\* An attempt has ended on a failed archival while snapshots were stored.
C2_Witness ==
  \E w \in Workers :
    /\ proc[w]["pc"] = "done"
    /\ proc[w]["err"] = "archive"
    /\ proc[w]["ret"] = 1
    /\ current[proc[w]["cls"]] # <<>>

------------------------------------------------------------------------------
(* C3: the data-loss-avoidance invariant under two interleaved            *)
(* invocations of the city write on the same keys (SpecConc).             *)

\* The snapshots of the written keys that a step of process w overwrites.
Overwritten(w) ==
  LET c == proc[w]["cls"]
  IN {i \in DOMAIN current[c] :
        /\ current[c][i]["key"] \in WrittenKeys(w)
        /\ \A j \in DOMAIN current'[c] : current'[c][j] # current[c][i]}

\* C3 as stated: every snapshot that was current and is overwritten by one
\* of two interleaved invocations has a copy in the history log.
C3_OverwrittenHasCopy ==
  [][\A w \in Workers :
       Mutates(w) =>
         \A i \in Overwritten(w) :
           HasCopy(history[proc[w]["cls"]], current[proc[w]["cls"]][i])]_vars

\* C3 as the code has it: every snapshot that the overwriting invocation's
\* own archival lookup returned, and that this invocation then overwrites,
\* has a copy in the history log.  (A snapshot that the other invocation made
\* current after that lookup is overwritten without a copy.)
C3_SeenOverwrittenHasCopy ==
  [][\A w \in Workers :
       Mutates(w) =>
         \A i \in Overwritten(w) :
           current[proc[w]["cls"]][i]["sid"] \in proc[w]["seen"]
             => HasCopy(history[proc[w]["cls"]], current[proc[w]["cls"]][i])]_vars

\* Both invocations have archived the same snapshot and it has been
\* overwritten: their archive-then-overwrite sequences have interleaved.
C3_Witness ==
  \E i, j \in DOMAIN history["city"] : \E k \in DOMAIN current["city"] :
    /\ i < j
    /\ history["city"][i]["sid"] = history["city"][j]["sid"]
    /\ current["city"][k]["key"] = history["city"][i]["key"]
    /\ current["city"][k]["sid"][1] > history["city"][i]["sid"][1]
    /\ \A w \in Workers : proc[w]["cls"] = "city"

------------------------------------------------------------------------------
(* C4: every snapshot that a grid write removes from the current          *)
(* collection has a copy in the history log before it is removed,         *)
(* including the snapshots of locations that are absent from the new set. *)

C4_GridRemovedHasCopy ==
  [][\A w \in Workers :
       (Mutates(w) /\ proc[w]["cls"] = "grid") =>
         \A i \in DOMAIN current["grid"] :
           (\A j \in DOMAIN current'["grid"] : current'["grid"][j] # current["grid"][i])
             => HasCopy(history["grid"], current["grid"][i])]_vars

------------------------------------------------------------------------------
(* C5: the history log holds at most one record copied from any one       *)
(* snapshot, also when a class flow is retried after its write failed.    *)

C5_OneRecordPerSnapshot ==
  \A c \in Classes : \A i, j \in DOMAIN history[c] :
    i # j => history[c][i]["sid"] # history[c][j]["sid"]

------------------------------------------------------------------------------
(* C6: from empty collections a first write of N snapshots of distinct    *)
(* identities skips archival without error and leaves 0 history records   *)
(* and the N snapshots current; a second write of the same N identities   *)
(* leaves N history records, each equal to one snapshot of the first      *)
(* write, and N current snapshots equal to the second set.                *)

DistinctKeys(s) == \A i, j \in DOMAIN s : i # j => s[i]["key"] # s[j]["key"]

\* The write of process w completes without a store failure.
WriteDone(w) ==
  /\ proc[w]["pc"] \in {"write", "gridInsert"}
  /\ proc'[w]["pc"] = "done"
  /\ proc'[w]["err"] # "write"

C6_FirstAndSecondWrite ==
  [][\A w \in Workers :
       LET c    == proc[w]["cls"]
           data == proc[w]["data"]
           docs == proc[w]["documents"]
       IN \* first write: the lookup finds nothing and archival is skipped
          /\ (/\ proc[w]["pc"] = "archFind" /\ proc'[w] # proc[w] /\ nfault' = nfault
              /\ current[c] = <<>> /\ history[c] = <<>>)
               => /\ proc'[w]["pc"] \in {"write", "gridDelete"}
                  /\ history'[c] = <<>>
          \* first write: 0 history records, the N snapshots current
          /\ (/\ WriteDone(w) /\ DistinctKeys(docs)
              /\ current[c] = <<>> /\ history[c] = <<>> /\ proc[w]["seen"] = {})
               => /\ current'[c] = docs
                  /\ history'[c] = <<>>
          \* second write: N history records, copies of the first snapshots
          /\ (/\ proc[w]["pc"] = "archInsert" /\ proc'[w] # proc[w] /\ nfault' = nfault
              /\ history[c] = <<>>
              /\ DistinctKeys(data) /\ DistinctKeys(current[c])
              /\ KeysOf(current[c]) = KeysOf(data))
               => /\ Len(history'[c]) = Len(data)
                  /\ \A i \in DOMAIN current[c] : IsCopyOf(history'[c][i], current[c][i])
          \* second write: the N current snapshots are the second set
          /\ (/\ WriteDone(w) /\ DistinctKeys(docs)
              /\ Len(history[c]) = Len(docs)
              /\ KeysOf(history[c]) = KeysOf(docs)
              /\ proc[w]["seen"] = {history[c][i]["sid"] : i \in DOMAIN history[c]}
              /\ (c = "grid" \/ KeysOf(current[c]) = KeysOf(docs)))
               => /\ history' = history
                  /\ Len(current'[c]) = Len(docs)
                  /\ \A i \in DOMAIN docs :
                       \E j \in DOMAIN current'[c] : current'[c][j] = docs[i]]_vars

------------------------------------------------------------------------------
(* C7: a city or port write leaves every current snapshot of an identity  *)
(* outside the written set as it was, and creates no history record for   *)
(* such a snapshot.                                                       *)

C7_OtherIdentitiesUntouched ==
  [][\A w \in Workers :
       LET c == proc[w]["cls"]
       IN (/\ c \in {"city", "port"}
           /\ proc[w]["pc"] \in {"archFind", "archInsert", "write"}
           /\ proc'[w] # proc[w]) =>
            /\ \A i \in DOMAIN current[c] :
                 current[c][i]["key"] \notin WrittenKeys(w)
                   => i \in DOMAIN current'[c] /\ current'[c][i] = current[c][i]
            /\ \A j \in DOMAIN history'[c] :
                 j > Len(history[c]) => history'[c][j]["key"] \in WrittenKeys(w)]_vars

\* A later write has replaced and archived the snapshot of one identity while
\* the snapshot of another identity is still the one of an earlier write, and
\* has no history record.
C7_Witness ==
  \E c \in {"city", "port"} : \E i, j \in DOMAIN current[c] :
    /\ current[c][i]["sid"][1] < current[c][j]["sid"][1]
    /\ \E h \in DOMAIN history[c] : history[c][h]["key"] = current[c][j]["key"]
    /\ \A h \in DOMAIN history[c] : history[c][h]["key"] # current[c][i]["key"]

------------------------------------------------------------------------------
(* C8: after a successful city or port write the stored snapshot of each  *)
(* written identity holds exactly the fields of the written snapshot plus *)
(* updated_at: no field of the previously stored snapshot survives.       *)

C8_ReplacedWholesale ==
  [][\A w \in Workers :
       (/\ proc[w]["pc"] = "write"
        /\ proc'[w]["pc"] = "done"
        /\ proc'[w]["err"] # "write") =>
         \A i \in DOMAIN proc[w]["documents"] :
           \E j \in DOMAIN current'[proc[w]["cls"]] :
             current'[proc[w]["cls"]][j] = proc[w]["documents"][i]]_vars

------------------------------------------------------------------------------
(* C9: each current collection holds at most one snapshot per location    *)
(* identity, whatever location list the metadata store supplies.          *)

C9_OneCurrentPerIdentity ==
  \A c \in Classes : \A i, j \in DOMAIN current[c] :
    i # j => current[c][i]["key"] # current[c][j]["key"]

------------------------------------------------------------------------------
(* C10: history is append-only.  Every step either appends records to a   *)
(* history collection and leaves the records it held as they were, or is  *)
(* a step of cleanupOldHistory, which removes records and changes none;   *)
(* and the archived_at values of the records of one identity are          *)
(* non-decreasing in insertion order.                                     *)

ArchivedAtMonotone ==
  \A c \in Classes : \A i, j \in DOMAIN history[c] :
    (i < j /\ history[c][i]["key"] = history[c][j]["key"])
      => history[c][i]["archived_at"] <= history[c][j]["archived_at"]

AppendOnlyStep ==
  \/ \A c \in Classes : IsPrefix(history[c], history'[c])
  \/ /\ \E d \in DaysToKeepChoices, failed \in SUBSET Classes : Cleanup(d, failed)
     /\ \A c \in Classes :
          \E keep \in SUBSET DOMAIN history[c] : history'[c] = SubList(history[c], keep)

C10_HistoryAppendOnly == []ArchivedAtMonotone /\ [][AppendOnlyStep]_vars

\* The log holds two records of one identity that were archived at different
\* times.
C10_Witness ==
  \E c \in Classes : \E i, j \in DOMAIN history[c] :
    /\ i < j
    /\ history[c][i]["key"] = history[c][j]["key"]
    /\ history[c][i]["archived_at"] < history[c][j]["archived_at"]

------------------------------------------------------------------------------
(* C11: a collector attempt that returns failure (1) has not changed the  *)
(* current collection of its class.  Stated for the store operation that  *)
(* ends the attempt, in runs where no store operation throws: a step     *)
(* after which main() returns 1 leaves every current collection as it     *)
(* was.                                                                   *)

C11_FailedAttemptChangesNothing ==
  [][\A w \in Workers :
       (/\ proc[w]["pc"] \notin {"idle", "done"}
        /\ proc'[w]["pc"] = "done"
        /\ proc'[w]["ret"] = 1
        /\ nfault' = 0)
         => current' = current]_vars

------------------------------------------------------------------------------
(* C12: runCollectorWithRetry reports a class as succeeded only if the    *)
(* class's data was fresh before the first attempt or some attempt        *)
(* completed a successful collection; a retry never passes the freshness  *)
(* gate on snapshots that a failed attempt of the same run stored.        *)
(* Stated for the runs where no store operation throws.                   *)

C12_SuccessMeansFreshOrCollected ==
  [][\A w \in Workers :
       (/\ proc[w]["pc"] = "done"
        /\ proc'[w]["pc"] = "idle"
        /\ proc[w]["ret"] = 0
        /\ nfault = 0)
         => \/ proc[w]["freshAtStart"]
            \/ proc[w]["err"] = "none"]_vars

------------------------------------------------------------------------------
(* C13: isDataFresh(fetchedAt, maxAgeHours) is false when fetchedAt is    *)
(* absent, false when now - fetchedAt > maxAgeHours and true when         *)
(* fetchedAt is present and now - fetchedAt <= maxAgeHours; and each      *)
(* class's gate reports fresh exactly when the greatest fetched_at among  *)
(* the class's current snapshots is present and at most the class's       *)
(* configured threshold old.                                              *)

IsDataFreshAsStated ==
  \A fetchedAt \in -1..MaxGateClock, maxAgeHours \in 0..MaxGateClock :
    /\ fetchedAt = -1 => ~isDataFresh(fetchedAt, maxAgeHours)
    /\ (fetchedAt # -1 /\ now - fetchedAt > maxAgeHours)
         => ~isDataFresh(fetchedAt, maxAgeHours)
    /\ (fetchedAt # -1 /\ now - fetchedAt <= maxAgeHours)
         => isDataFresh(fetchedAt, maxAgeHours)

\* The fetched_at values of the class's current snapshots.
FetchedAts(c) ==
  {current[c][i]["fetched_at"] :
     i \in {j \in DOMAIN current[c] : "fetched_at" \in DOMAIN current[c][j]}}

GateAsStated(c, threshold) ==
  \E t \in FetchedAts(c) :
    /\ \A u \in FetchedAts(c) : u <= t
    /\ now - t <= threshold

GateStep ==
  \A w \in Workers :
    (proc[w]["pc"] = "gate" /\ proc'[w] # proc[w]) =>
      LET c == proc[w]["cls"]
          threshold == CASE c = "city" -> FreshnessCity
                         [] c = "grid" -> FreshnessGrid
                         [] c = "port" -> FreshnessPort
      IN IF GateAsStated(c, threshold)
         THEN proc'[w]["pc"] = "done" /\ proc'[w]["err"] = "fresh"
         ELSE proc'[w]["pc"] = "load"

C13_FreshnessGate == []IsDataFreshAsStated /\ [][GateStep]_vars

\* A gate has reported fresh on data that is exactly the threshold old.
C13_Witness ==
  \E w \in Workers :
    /\ proc[w]["pc"] = "done"
    /\ proc[w]["err"] = "fresh"
    /\ \E t \in FetchedAts(proc[w]["cls"]) :
         /\ \A u \in FetchedAts(proc[w]["cls"]) : u <= t
         /\ now - t = freshness(proc[w]["cls"])

------------------------------------------------------------------------------
(* C14: when a class's freshness gate reports fresh, the collector        *)
(* returns 0 at once: it loads no locations, makes no fetch, changes      *)
(* neither the current nor the history collection, and the flow ends      *)
(* without a retry.                                                       *)

C14_FreshMeansNoWork ==
  [][\A w \in Workers :
       /\ (/\ proc[w]["pc"] = "gate" /\ proc'[w] # proc[w]
           /\ nfault' = nfault
           /\ isWeatherFresh(proc[w]["cls"]))
            => /\ proc'[w]["pc"] = "done"
               /\ proc'[w]["ret"] = 0
               /\ proc'[w]["locs"] = <<>> /\ proc'[w]["data"] = <<>>
               /\ UNCHANGED <<current, history, nfetch, batched, cleaner, orch>>
       /\ (/\ proc[w]["pc"] = "done" /\ proc'[w] # proc[w]
           /\ proc[w]["err"] = "fresh")
            => /\ proc'[w]["pc"] = "idle"
               /\ UNCHANGED <<current, history, nfetch, batched, cleaner, orch>>]_vars

\* A collector has returned on fresh data of its class.
C14_Witness ==
  \E w \in Workers :
    /\ proc[w]["pc"] = "done"
    /\ proc[w]["err"] = "fresh"
    /\ proc[w]["ret"] = 0
    /\ isWeatherFresh(proc[w]["cls"])
    /\ current[proc[w]["cls"]] # <<>>

------------------------------------------------------------------------------
(* C15: batchArray cuts a list of N locations, for a batch size B >= 1,    *)
(* into exactly ceil(N / B) batches; every batch is non-empty and holds at *)
(* most B locations; the batches joined in order are the input list.       *)

CeilDiv(n, b) == (n + b - 1) \div b

RECURSIVE Concat(_)
Concat(seqs) == IF Len(seqs) = 0 THEN <<>> ELSE Head(seqs) \o Concat(Tail(seqs))

BatchArrayAsStated(array, size) ==
  LET batches == batchArray(array, size)
  IN /\ Len(batches) = CeilDiv(Len(array), size)
     /\ \A i \in DOMAIN batches : Len(batches[i]) >= 1 /\ Len(batches[i]) <= size
     /\ Concat(batches) = array

C15_BatchArray ==
  /\ batched["pc"] = "idle" =>
       \A array \in SeqsUpTo({1, 2}, MaxLocations) :
         \A size \in 1..MaxBatchSize : BatchArrayAsStated(array, size)
  /\ batched["pc"] # "idle" =>
       /\ batched["batches"] = batchArray(batched["locations"], batched["batchSize"])
       /\ BatchArrayAsStated(batched["locations"], batched["batchSize"])

\* The fetcher works on a list that its batch size does not divide: several
\* batches, the last one shorter than the others.
C15_Witness ==
  /\ batched["pc"] = "attempt"
  /\ Len(batched["batches"]) >= 2
  /\ Len(batched["locations"]) % batched["batchSize"] # 0
  /\ Len(batched["batches"][Len(batched["batches"])]) < batched["batchSize"]

------------------------------------------------------------------------------
(* C16: when a batch request fails, the batched fetcher sleeps before it   *)
(* issues the request again; the sleep is 60 s before the first retry and  *)
(* doubles with each further retry, whatever the error was; and a batch is *)
(* requested at most maxRetries times.                                     *)

\* log[i] is a failed request and log[j] the next request of the same batch.
Reissued(log, i, j) ==
  /\ i < j
  /\ log[i]["ev"] = "request" /\ log[j]["ev"] = "request"
  /\ Len(log[i]["result"]) = 0
  /\ log[j]["batch"] = log[i]["batch"]
  /\ \A k \in (i + 1)..(j - 1) : log[k]["ev"] # "request"

C16_BackoffBeforeRetry ==
  LET log == batched["log"]
  IN /\ \A i, j \in DOMAIN log :
          Reissued(log, i, j) =>
            \E k \in (i + 1)..(j - 1) :
              /\ log[k]["ev"] = "sleep"
              /\ log[k]["ms"] = RetryDelayStart * Pow2(log[i]["retry"])
     /\ \A i \in DOMAIN log :
          log[i]["ev"] = "request" => log[i]["retry"] < CollectorMaxRetries

------------------------------------------------------------------------------
(* C17: a batch whose maxRetries attempts all failed is dropped and the    *)
(* fetcher goes on with the next batch.  What fetchWeatherDataBatched      *)
(* returns is the results of the batches that had a successful attempt,    *)
(* joined in input order, nothing twice; and a grid run that got at least  *)
(* one snapshot this way writes exactly these and reports success.  (With  *)
(* 5 locations in batches of 2 and the second batch dropped: 3 snapshots.) *)

\* The results of the requests of a log, joined in the order of the log.
RECURSIVE ResultsOf(_)
ResultsOf(log) ==
  IF Len(log) = 0 THEN <<>>
  ELSE (IF Head(log)["ev"] = "request" THEN Head(log)["result"] ELSE <<>>)
         \o ResultsOf(Tail(log))

RequestsOf(log, b) == {i \in DOMAIN log : log[i]["ev"] = "request" /\ log[i]["batch"] = b}

SucceededAt(log, b) == {i \in RequestsOf(log, b) : Len(log[i]["result"]) > 0}

Dropped(log, b) ==
  /\ SucceededAt(log, b) = {}
  /\ Cardinality(RequestsOf(log, b)) = CollectorMaxRetries

PositionIn(array, x) == CHOOSE i \in DOMAIN array : array[i] = x

C17_DroppedBatchesSkipped ==
  LET log == batched["log"]
      out == batched["allProcessedData"]
      locations == batched["locations"]
  IN /\ out = ResultsOf(log)
     /\ \A b \in 0..(Len(batched["batches"]) - 1) :
          /\ Cardinality(SucceededAt(log, b)) <= 1
          /\ \A i \in SucceededAt(log, b) : \A j \in RequestsOf(log, b) : j <= i
     /\ \A i, j \in DOMAIN out :
          i < j => /\ out[i]["key"] # out[j]["key"]
                   /\ PositionIn(locations, out[i]["key"])
                        < PositionIn(locations, out[j]["key"])
     /\ batched["pc"] = "returned" =>
          /\ \A b \in 0..(Len(batched["batches"]) - 1) :
               SucceededAt(log, b) # {} \/ Dropped(log, b)
          /\ proc[1]["pc"] \in {"archFind", "gridDelete"} =>
               proc[1]["data"] = out
          /\ proc[1]["pc"] = "done" =>
               /\ proc[1]["ret"] = 0 <=> Len(out) > 0
               /\ proc[1]["ret"] = 0 =>
                    /\ Len(current["grid"]) = Len(out)
                    /\ \A i \in DOMAIN out :
                         current["grid"][i]["key"] = out[i]["key"]

\* Five locations in batches of two; the second batch failed three times
\* and was dropped, the first and the third came back whole: the run wrote
\* three snapshots and reported success.
C17_Witness ==
  /\ batched["pc"] = "returned"
  /\ Len(batched["locations"]) = 5 /\ batched["batchSize"] = 2
  /\ Dropped(batched["log"], 1)
  /\ SucceededAt(batched["log"], 0) # {} /\ SucceededAt(batched["log"], 2) # {}
  /\ Len(batched["allProcessedData"]) = 3
  /\ proc[1]["pc"] = "done" /\ proc[1]["ret"] = 0
  /\ Len(current["grid"]) = 3

------------------------------------------------------------------------------
(* C18: the batched fetcher waits the inter-batch delay exactly once       *)
(* between every two consecutive batches, whether the earlier batch        *)
(* succeeded or was dropped, and never after the last batch.               *)

C18_InterBatchDelay ==
  LET log == batched["log"]
      last == Len(batched["batches"]) - 1
  IN /\ \A i \in DOMAIN log :
          log[i]["ev"] = "sleep" =>
            /\ log[i]["ms"] = RequestDelayMs * 10
            /\ i > 1
            /\ log[i - 1]["ev"] = "request"
            /\ log[i - 1]["batch"] < last
            /\ i < Len(log) =>
                 /\ log[i + 1]["ev"] = "request"
                 /\ log[i + 1]["batch"] = log[i - 1]["batch"] + 1
     /\ \A i \in DOMAIN log :
          (i < Len(log) /\ log[i]["ev"] = "request" /\ log[i + 1]["ev"] = "request")
            => log[i + 1]["batch"] = log[i]["batch"]
     /\ batched["pc"] = "attempt" /\ batched["batchNum"] > 0 /\ batched["retry"] = 0 =>
          log[Len(log)]["ev"] = "sleep"
     /\ batched["pc"] = "returned" => log[Len(log)]["ev"] = "request"

\* The fetch is over; a batch was dropped and another succeeded before a
\* later batch, and each of them was followed by one wait.
C18_Witness ==
  LET log == batched["log"]
  IN /\ batched["pc"] = "returned"
     /\ \E b, c \in 0..(Len(batched["batches"]) - 2) :
          /\ Dropped(log, b)
          /\ SucceededAt(log, c) # {}
          /\ \A d \in {b, c} :
               \E i \in DOMAIN log :
                 /\ log[i]["ev"] = "sleep"
                 /\ log[i - 1]["batch"] = d
                 /\ log[i + 1]["batch"] = d + 1

------------------------------------------------------------------------------
(* C19: a city or grid attempt whose fetch brought no result returns 1 and *)
(* the writer is not called; one whose fetch brought at least one result,  *)
(* even fewer than there are locations, hands exactly these to the writer, *)
(* and when the writer's store operations succeed the results are in the   *)
(* current collection and the attempt returns 0.                           *)

InCurrent(coll, doc) ==
  \E j \in DOMAIN coll : coll[j]["key"] = doc["key"] /\ coll[j]["sid"] = doc["sid"]

------------------------------------------------------------------------------
(* C20: the port collector's loop produces exactly one snapshot per port,  *)
(* in the order of the ports, whatever the requests did: an item that      *)
(* failed does not end the loop; it is tagged failed or error, with a null *)
(* payload and an error text; an item that succeeded is tagged success and *)
(* carries its payload.  (Of 10 ports with 3 failing requests: 10          *)
(* snapshots, 3 failed or error, 7 success.)                               *)

PortResultAsStated(result) ==
  /\ result["status"] \in {"success", "failed", "error"}
  /\ result["status"] \in {"failed", "error"} =>
       /\ result["weather_data"] = "null"
       /\ "error" \in DOMAIN result
       /\ result["error"] # "null"
  /\ result["status"] = "success" => result["weather_data"] # "null"

PortLoopInv ==
  LET ports == proc[1]["locs"]
      results == proc[1]["data"]
  IN /\ \A i \in DOMAIN results : PortResultAsStated(results[i])
     /\ proc[1]["successful"] = Successful(results)
     /\ proc[1]["pc"] = "fetch" =>
          /\ Len(results) <= Len(ports)
          /\ \A i \in DOMAIN results : results[i]["key"] = ports[i]

\* The results at the end of the loop are one of FetchResults("port", ...),
\* the one with the statuses the requests had.
PortLoopExit ==
  proc'[1]["pc"] # "fetch" =>
    /\ proc'[1]["data"] = proc[1]["data"]
    /\ Len(proc[1]["data"]) = Len(proc[1]["locs"])
    /\ proc[1]["data"] = [i \in DOMAIN proc[1]["locs"] |->
                            PortItem(proc[1]["locs"][i], nfetch + 1, i,
                                     proc[1]["data"][i]["status"])]

C20_OneSnapshotPerPort == []PortLoopInv /\ [][PortLoopExit]_vars

\* The loop has ended on ten ports of which three requests failed, one at
\* least answered without data and one at least thrown.
C20_Witness ==
  LET results == proc[1]["data"]
  IN /\ proc[1]["pc"] = "archFind"
     /\ Len(results) = 10
     /\ proc[1]["successful"] = 7
     /\ Cardinality({i \in DOMAIN results : results[i]["status"] \in {"failed", "error"}}) = 3
     /\ \E i, j \in DOMAIN results :
          results[i]["status"] = "failed" /\ results[j]["status"] = "error"
     /\ \A i \in DOMAIN results : results[i]["key"] = i

------------------------------------------------------------------------------
(* C21: a port attempt that went through its fetch loop returns 0 when at  *)
(* least one item was fetched with status success, and 1 when none was.    *)
(* As stated this is for every such attempt; it holds for those whose save *)
(* (archival and bulkWrite) does not throw, and an attempt whose save      *)
(* throws returns 1 whatever was fetched.                                  *)

PortAttemptEnds(w) ==
  /\ proc[w]["cls"] = "port"
  /\ proc[w]["pc"] \in {"archFind", "archInsert", "write"}
  /\ proc'[w]["pc"] = "done"

PortFetched(w) ==
  /\ proc[w]["cls"] = "port"
  /\ proc[w]["pc"] = "fetch"
  /\ proc'[w]["pc"] = "archFind"

C21_SuccessIffItemSucceeded ==
  [][\A w \in Workers :
       PortAttemptEnds(w) =>
         /\ proc[w]["successful"] > 0 => proc'[w]["ret"] = 0
         /\ proc[w]["successful"] = 0 => proc'[w]["ret"] = 1]_vars

C21_SavedSuccessIffItemSucceeded ==
  [][\A w \in Workers :
       /\ PortFetched(w) =>
            /\ proc'[w]["successful"] = Successful(proc'[w]["data"])
            /\ Len(proc'[w]["data"]) = Len(proc[w]["locs"])
       /\ (proc[w]["cls"] = "port" /\ proc[w]["pc"] \in {"archFind", "archInsert"}
           /\ proc'[w]["pc"] \notin {"archFind", "archInsert", "done"}) =>
            proc'[w]["successful"] = proc[w]["successful"]
       /\ PortAttemptEnds(w) =>
            /\ nfault' = nfault =>
                 /\ proc[w]["successful"] > 0 => proc'[w]["ret"] = 0
                 /\ proc[w]["successful"] = 0 => proc'[w]["ret"] = 1
            /\ nfault' # nfault => proc'[w]["ret"] = 1]_vars

\* A port attempt has returned 0 after a fetch in which one request
\* succeeded and another did not; both snapshots are stored.
C21_Witness ==
  \E w \in Workers :
    /\ proc[w]["cls"] = "port"
    /\ proc[w]["pc"] = "done" /\ proc[w]["ret"] = 0 /\ proc[w]["err"] = "none"
    /\ \E i, j \in DOMAIN current["port"] :
         /\ current["port"][i]["sid"][1] = nfetch
         /\ current["port"][j]["sid"][1] = nfetch
         /\ current["port"][i]["status"] = "success"
         /\ current["port"][j]["status"] # "success"

------------------------------------------------------------------------------
(* C22: a port item whose request fails is requested again, after a        *)
(* backoff, up to a bounded number of attempts; only an item whose         *)
(* attempts all failed gets a snapshot tagged failed or error.  So a       *)
(* snapshot tagged failed or error stands for more than one request.       *)

RequestsForItem(log, i) ==
  {j \in DOMAIN log : log[j]["ev"] = "request" /\ log[j]["item"] = i}

C22_FailedOnlyAfterRetries ==
  LET results == proc[1]["data"]
  IN \A i \in DOMAIN results :
       results[i]["status"] \in {"failed", "error"} =>
         Cardinality(RequestsForItem(batched["log"], i)) > 1

------------------------------------------------------------------------------
(* C23: cleanupOldHistory(daysToKeep) deletes, in each of the three        *)
(* history collections, exactly the records with archived_at earlier than  *)
(* now - daysToKeep days: a record archived exactly then is kept; it       *)
(* returns the number deleted per class, and their sum as total.  (Of      *)
(* records archived 100, 50 and 10 days ago, daysToKeep = 90 leaves the    *)
(* last two.)                                                              *)

Eligible(hist, cutoff) == {i \in DOMAIN hist : hist[i]["archived_at"] < cutoff}

CleanupAsStated(before, after, result, cutoff) ==
  /\ \A c \in Classes :
       /\ after[c] = SubList(before[c], DOMAIN before[c] \ Eligible(before[c], cutoff))
       /\ result[c] = Cardinality(Eligible(before[c], cutoff))
  /\ result["total"] = result["city"] + result["grid"] + result["port"]

C23_CleanupDeletesOlderOnly ==
  (cleaner["pc"] = "returned" /\ cleaner["result"]["ok"]) =>
    CleanupAsStated(cleaner["before"], history, cleaner["result"], cleaner["cutoffDate"])

ArchivedOn(hist) == {hist[i]["archived_at"] : i \in DOMAIN hist}

\* A cleanup with daysToKeep = 90 has returned.  The city history held the
\* records of 100, 50 and 10 days ago and holds the last two; the grid
\* history held a record archived exactly 90 days ago and still holds it.
C23_Witness ==
  /\ cleaner["pc"] = "returned"
  /\ cleaner["result"]["ok"]
  /\ cleaner["cutoffDate"] = now - 90 * HoursPerDay
  /\ ArchivedOn(cleaner["before"]["city"])
       = {now - 100 * HoursPerDay, now - 50 * HoursPerDay, now - 10 * HoursPerDay}
  /\ ArchivedOn(history["city"]) = {now - 50 * HoursPerDay, now - 10 * HoursPerDay}
  /\ Len(history["city"]) = 2
  /\ cleaner["result"]["city"] = 1
  /\ (now - 90 * HoursPerDay) \in ArchivedOn(cleaner["before"]["grid"])
  /\ (now - 90 * HoursPerDay) \in ArchivedOn(history["grid"])

------------------------------------------------------------------------------
(* C24: retention cleanup is idempotent.  A cleanup that follows a         *)
(* completed cleanup with the same cutoff, no record having been archived  *)
(* in between, deletes nothing: it leaves the three history collections    *)
(* as they are and reports zero for every class and for the total.         *)

SecondRunSameCutoff ==
  /\ cleaner["runs"] >= 2
  /\ cleaner["lastResult"]["ok"]
  /\ cleaner["lastCutoff"] = cleaner["cutoffDate"]

C24_CleanupIdempotent ==
  SecondRunSameCutoff =>
    /\ history = cleaner["before"]
    /\ \A c \in Classes : cleaner["deletedCount"][c] = 0
    /\ (cleaner["pc"] = "returned" /\ cleaner["result"]["ok"]) =>
         /\ \A c \in Classes : cleaner["result"][c] = 0
         /\ cleaner["result"]["total"] = 0

\* The second of two cleanups with the same cutoff has returned; the first
\* had deleted records, and records are left.
C24_Witness ==
  /\ SecondRunSameCutoff
  /\ cleaner["pc"] = "returned"
  /\ cleaner["result"]["ok"]
  /\ cleaner["lastResult"]["total"] > 0
  /\ cleaner["result"]["total"] = 0
  /\ \E c \in Classes : Len(history[c]) > 0

------------------------------------------------------------------------------
(* C25: the three deletions of a cleanup are independent: when the         *)
(* deleteMany of one class fails, those of the other classes still take    *)
(* effect, and the numbers they deleted are still reported to the caller.  *)

OthersDeleted ==
  \A c \in Classes \ cleaner["failed"] :
    history[c] = SubList(cleaner["before"][c],
                         DOMAIN cleaner["before"][c]
                           \ Eligible(cleaner["before"][c], cleaner["cutoffDate"]))

C25_PartialCountsReported ==
  (/\ cleaner["pc"] = "returned"
   /\ cleaner["failed"] # {}
   /\ cleaner["pending"] = {}) =>
     /\ OthersDeleted
     /\ cleaner["result"]["ok"]
     /\ \A c \in Classes \ cleaner["failed"] :
          cleaner["result"][c] = Cardinality(Eligible(cleaner["before"][c], cleaner["cutoffDate"]))

------------------------------------------------------------------------------
(* C28: when a class flow fails, runCollectorWithRetry runs the whole flow *)
(* again, at most 3 attempts in all; it waits the same fixed delay between *)
(* any two consecutive attempts, stops at the first attempt that succeeds  *)
(* and does not wait after the last failed attempt.                        *)

C28_FixedDelayBetweenAttempts ==
  \A w \in Workers :
    proc[w]["pc"] # "idle" =>
      /\ proc[w]["attempt"] >= 1 /\ proc[w]["attempt"] <= 3
      /\ Len(proc[w]["delays"]) = proc[w]["attempt"] - 1
      /\ \A i, j \in DOMAIN proc[w]["delays"] : proc[w]["delays"][i] = proc[w]["delays"][j]

------------------------------------------------------------------------------
(* C29: at any instant at most one network call or one store operation of *)
(* the pipeline (collectors, writer, retention cleaner) is outstanding.    *)
(* The collectors and the writer await each call before the next; the      *)
(* store operations the cleaner has issued and not yet seen completed are  *)
(* cleaner.pending.                                                        *)

Outstanding == Cardinality(cleaner["pending"])

C29_OneOperationAtATime == Outstanding <= 1

------------------------------------------------------------------------------
(* C26: the orchestrator runs the classes one after the other in the       *)
(* order city, grid, port: a class's flow, with all its attempts, is over  *)
(* before the next class starts; no two flows are active at once; there is *)
(* a pause between consecutive classes and none after the last.            *)

\* What the orchestrator does from its first collector to its last.
ExpectedRun ==
  <<[ev |-> "start", cls |-> "city"], [ev |-> "end", cls |-> "city"],
    [ev |-> "pause", ms |-> PauseMs],
    [ev |-> "start", cls |-> "grid"], [ev |-> "end", cls |-> "grid"],
    [ev |-> "pause", ms |-> PauseMs],
    [ev |-> "start", cls |-> "port"], [ev |-> "end", cls |-> "port"]>>

RunLog == SelectSeq(orch["log"], LAMBDA e : e["ev"] \in {"start", "end", "pause"})

C26_ClassesInSequence ==
  /\ IsPrefix(RunLog, ExpectedRun)
  /\ Cardinality({w \in Workers : proc[w]["pc"] # "idle"}) <= 1
  /\ \A w \in Workers :
       proc[w]["pc"] # "idle" =>
         /\ orch["pc"] = "call"
         /\ RunLog[Len(RunLog)] = [ev |-> "start", cls |-> proc[w]["cls"]]
  /\ orch["pc"] = "exited" /\ orch["connects"] > 0 /\ Len(orch["results"]) > 0 =>
       RunLog = ExpectedRun

\* The orchestrator has finished a run in which a class succeeded and
\* another failed.
C26_Witness ==
  /\ orch["pc"] = "exited"
  /\ RunLog = ExpectedRun
  /\ \E i, j \in DOMAIN orch["results"] :
       orch["results"][i]["success"] /\ ~orch["results"][j]["success"]

------------------------------------------------------------------------------
(* C27: once the connection is open the orchestrator runs every class,     *)
(* whatever the earlier ones did; its summary holds one outcome per class; *)
(* it exits with 0 if and only if every class succeeded, and with 1        *)
(* otherwise, also when connecting fails.  As stated the exit code depends *)
(* on the classes alone; it is also 1 when closing the connection throws.  *)

ConnectFailed == orch["pc"] = "exited" /\ orch["log"] = <<>>

DisconnectThrew == orch["disconnects"] > 1

AllSucceeded == \A i \in DOMAIN orch["results"] : orch["results"][i]["success"]

OneOutcomePerClass ==
  /\ Len(orch["results"]) <= Len(COLLECTORS)
  /\ \A i \in DOMAIN orch["results"] : orch["results"][i]["name"] = COLLECTORS[i]
  /\ (orch["pc"] = "exited" /\ ~ConnectFailed) => Len(orch["results"]) = Len(COLLECTORS)
  /\ ConnectFailed => orch["results"] = <<>> /\ orch["exit"] = 1

C27_ExitZeroIffAllSucceeded ==
  /\ OneOutcomePerClass
  /\ (orch["pc"] = "exited" /\ ~ConnectFailed) => (orch["exit"] = 0 <=> AllSucceeded)

C27_ExitZeroIffAllSucceededAndClosed ==
  /\ OneOutcomePerClass
  /\ (orch["pc"] = "exited" /\ ~ConnectFailed) =>
       /\ orch["exit"] \in {0, 1}
       /\ orch["exit"] = 0 <=> (AllSucceeded /\ ~DisconnectThrew)

\* The orchestrator has exited with 1 after a run in which the first class
\* failed and the last class succeeded.
C27_Witness ==
  /\ orch["pc"] = "exited"
  /\ Len(orch["results"]) = 3
  /\ ~orch["results"][1]["success"]
  /\ orch["results"][3]["success"]
  /\ orch["exit"] = 1
  /\ ~DisconnectThrew

------------------------------------------------------------------------------
(* C30: during an orchestrator run the connection is opened exactly once,  *)
(* before the first class; the connectDatabase calls of the collectors and *)
(* of their retries reuse it; it is closed exactly once, after the last    *)
(* class, on the normal and on the error path.  As stated this holds of    *)
(* every run that connected; in the code it holds of the runs in which the *)
(* driver reports no loss of the connection and the close does not throw.  *)

------------------------------------------------------------------------------
(* C31: when a class has no locations to process after the metadata load,  *)
(* the attempt returns failure (1) without a provider request or a store   *)
(* write, and the other classes still run and can succeed.  The step that  *)
(* ends the metadata load either hands a non-empty list to the fetch or    *)
(* ends the attempt with exit code 1; up to there the attempt has changed  *)
(* neither collection and made no request; in the orchestrator's summary   *)
(* such a class is a failure, and every class has its outcome.             *)

NoLocationsFails ==
  \A w \in Workers :
    /\ (proc[w]["pc"] \in {"gate", "load"} /\ proc'[w] # proc[w]) =>
         UNCHANGED <<current, history, nfetch>>
    /\ (proc'[w]["pc"] = "load" /\ proc[w]["pc"] # "load") => proc[w]["pc"] = "gate"
    /\ (proc[w]["pc"] = "load" /\ proc'[w] # proc[w]) =>
         \/ proc'[w]["pc"] = "fetch" /\ Len(proc'[w]["locs"]) > 0
         \/ /\ proc'[w]["pc"] = "done"
            /\ proc'[w]["ret"] = 1
            /\ proc'[w]["err"] = "nolocations"

NoLocationsInSummary ==
  /\ \A i \in DOMAIN orch["results"] :
       orch["results"][i]["err"] = "nolocations" => ~orch["results"][i]["success"]
  /\ (orch["pc"] = "exited" /\ ~ConnectFailed) => Len(orch["results"]) = Len(COLLECTORS)

C31_NoLocationsFailsAlone == []NoLocationsInSummary /\ [][NoLocationsFails]_vars

\* The orchestrator has finished a run in which the city class had no
\* locations in each of its attempts, and the grid and port classes succeeded.
C31_Witness ==
  /\ orch["pc"] = "exited"
  /\ Len(orch["results"]) = 3
  /\ orch["results"][1]["err"] = "nolocations"
  /\ orch["results"][2]["success"]
  /\ orch["results"][3]["success"]
  /\ current["city"] = <<>>
  /\ current["grid"] # <<>>
  /\ current["port"] # <<>>

------------------------------------------------------------------------------
(* C32: if the final write of the new snapshots throws after the archival  *)
(* completed, the attempt returns failure (1), the history records that    *)
(* the archival inserted stay in the history log, and the freshness gate   *)
(* of the class reports stale when the next attempt begins, so that the    *)
(* collection is retried.                                                  *)

C32_FailedWriteIsRetried ==
  [][\A w \in Workers :
       /\ (proc'[w]["err"] = "write" /\ proc[w]["err"] # "write") =>
            /\ proc'[w]["ret"] = 1
            /\ history' = history
       /\ (proc[w]["pc"] = "done" /\ proc[w]["err"] = "write" /\ proc'[w]["pc"] = "gate") =>
            ~isWeatherFresh(proc[w]["cls"])]_vars

------------------------------------------------------------------------------
(* C33: when the provider returns fewer or differently shaped results than *)
(* the coordinates submitted in one request, the results kept are those of *)
(* a prefix of the submitted locations, in order, each result paired with  *)
(* the location at the same position.  As stated the kept results are a    *)
(* prefix; in the code they are the results that hold "current" among the  *)
(* entries below both lengths, which is a prefix when every such entry     *)
(* holds "current".                                                        *)

\* The snapshot of each submitted location, paired with the entry of the
\* response at the same position.
Paired(locations, n) == [i \in DOMAIN locations |-> WeatherItem(locations[i], n, i)]

Fetched == batched["pc"] = "returned" /\ Len(batched["log"]) = 1
             /\ batched["log"][1]["ev"] = "fetch"

C33_KeptIsPrefix ==
  Fetched =>
    LET call == batched["log"][1]
    IN \E m \in 0..Len(batched["locations"]) :
         call["result"] = Prefix(Paired(batched["locations"], nfetch), m)

C33_KeptIsPairedSubList ==
  Fetched =>
    LET call == batched["log"][1]
        response == call["response"]
        locations == batched["locations"]
    IN /\ \E keep \in SUBSET DOMAIN locations :
            call["result"] = SubList(Paired(locations, nfetch), keep)
       /\ response["kind"] # "array" => call["result"] = <<>>
       /\ response["kind"] = "array" =>
            LET data == response["data"]
                m == Min(Len(data), Len(locations))
            IN /\ Len(call["result"]) <= m
               /\ (\A i \in 1..m : data[i] = "current") =>
                    call["result"] = Prefix(Paired(locations, nfetch), m)
               /\ (\A i \in 1..m : data[i] # "null") =>
                    \A i \in 1..m :
                      data[i] = "current" <=>
                        \E j \in DOMAIN call["result"] :
                          call["result"][j] = Paired(locations, nfetch)[i]

\* Three locations were submitted and two results came back, both holding
\* "current": the snapshots of the first two locations are kept.
C33_Witness ==
  /\ Fetched
  /\ Len(batched["locations"]) = 3
  /\ batched["log"][1]["response"] = [kind |-> "array", data |-> <<"current", "current">>]
  /\ batched["log"][1]["result"] = Prefix(Paired(batched["locations"], nfetch), 2)

------------------------------------------------------------------------------
(* C34: for every maxRetries >= 1, retryWithBackoff(fn, maxRetries,        *)
(* baseDelay) calls fn at most maxRetries times, stops at the first call   *)
(* that succeeds and returns its result, sleeps baseDelay * 2^(k-1) after  *)
(* the k-th failed call for k < maxRetries, and after maxRetries failed    *)
(* calls throws the last error again without a further sleep.              *)

\* What the log holds after n failed calls that were followed by a sleep.
RECURSIVE FailedRounds(_, _)
FailedRounds(baseDelay, n) ==
  IF n = 0 THEN <<>>
  ELSE FailedRounds(baseDelay, n - 1)
         \o <<[ev |-> "call", attempt |-> n, ok |-> FALSE],
              [ev |-> "sleep", ms |-> baseDelay * Pow2(n - 1)]>>

RetryCalls == SelectSeq(retrier["log"], LAMBDA e : e["ev"] = "call")

C34_RetryWithBackoff ==
  (retrier["pc"] # "idle" /\ retrier["maxRetries"] >= 1) =>
    LET m == retrier["maxRetries"]
        b == retrier["baseDelay"]
        n == Len(RetryCalls)
    IN /\ n <= m
       /\ retrier["attempt"] <= m
       /\ retrier["pc"] = "calling" =>
            /\ retrier["log"] = FailedRounds(b, retrier["attempt"] - 1)
            /\ retrier["result"] = [kind |-> "none"]
       /\ retrier["pc"] = "sleeping" =>
            /\ retrier["attempt"] < m
            /\ retrier["log"] = FailedRounds(b, retrier["attempt"] - 1)
                                  \o <<[ev |-> "call", attempt |-> retrier["attempt"],
                                        ok |-> FALSE]>>
       /\ retrier["pc"] = "returned" =>
            /\ retrier["log"] = FailedRounds(b, n - 1)
                                  \o <<[ev |-> "call", attempt |-> n, ok |-> TRUE]>>
            /\ retrier["result"] = [kind |-> "value", of |-> n]
       /\ retrier["pc"] = "thrown" =>
            /\ n = m
            /\ retrier["log"] = FailedRounds(b, m - 1)
                                  \o <<[ev |-> "call", attempt |-> m, ok |-> FALSE]>>
            /\ retrier["result"] = [kind |-> "error", of |-> m]

\* retryWithBackoff(fn, 4, 5000) has thrown the error of the fourth call after
\* sleeps of 5, 10 and 20 seconds.
C34_Witness ==
  /\ retrier["pc"] = "thrown"
  /\ retrier["maxRetries"] = 4
  /\ retrier["baseDelay"] = BaseDelay
  /\ Len(RetryCalls) = 4
  /\ SelectSeq(retrier["log"], LAMBDA e : e["ev"] = "sleep")
       = <<[ev |-> "sleep", ms |-> BaseDelay], [ev |-> "sleep", ms |-> 2 * BaseDelay],
           [ev |-> "sleep", ms |-> 4 * BaseDelay]>>
  /\ retrier["result"] = [kind |-> "error", of |-> 4]

------------------------------------------------------------------------------
(* C35: provided every provider call and store operation eventually        *)
(* returns or fails, a run of the orchestrator eventually reaches its      *)
(* summary and returns an exit status, for every pattern of failures: a    *)
(* class is attempted at most 3 times, and a grid attempt makes at most    *)
(* ceil(N / B) * R provider requests (N locations, batches of B, R tries). *)

GridRequests == Len(SelectSeq(batched["log"], LAMBDA e : e["ev"] = "request"))

BoundedWork ==
  /\ \A w \in Workers : proc[w]["attempt"] <= MaxRetries
  /\ Len(orch["results"]) <= Len(COLLECTORS)
  /\ GridRequests <= CeilDiv(Len(batched["locations"]), batched["batchSize"])
                       * CollectorMaxRetries

C35_RunTerminates == []BoundedWork /\ <>(orch["pc"] = "exited")

\* A run has ended in which every class failed in each of its attempts and
\* the last grid attempt made all its requests: two batches, three tries each.
C35_Witness ==
  /\ orch["pc"] = "exited"
  /\ Len(orch["results"]) = Len(COLLECTORS)
  /\ \A i \in DOMAIN orch["results"] : ~orch["results"][i]["success"]
  /\ Len(batched["locations"]) = 2
  /\ batched["batchSize"] = 1
  /\ GridRequests = 2 * CollectorMaxRetries

------------------------------------------------------------------------------
(* C36: a write with an empty or absent snapshot set is a no-op for every  *)
(* class: saveCityWeatherData, saveGridWeatherData and savePortWeatherData *)
(* then leave the current and the history collection as they were; an      *)
(* empty grid set never empties the current grid collection.               *)

\* The call in progress, or the call that has returned, was given no data.
SavingNothing ==
  \/ proc[1]["err"] = "nothing"
  \/ /\ proc[1]["pc"] \in {"archFind", "archInsert", "write", "gridDelete", "gridInsert"}
     /\ proc[1]["data"] = <<>>
     /\ proc[1]["documents"] = <<>>
     /\ proc[1]["historyDocs"] = <<>>

------------------------------------------------------------------------------
(* C37: if reading the latest fetch time throws, the freshness gate        *)
(* reports stale instead of failing the attempt, and the collector goes on *)
(* to the metadata load and the fetch; a metadata store that is empty or   *)
(* throws makes the collector fall back to the built-in location list; a   *)
(* failure to seed that list into the store does not fail the attempt.     *)

ThrowingStep == nfault' > nfault

GateAndLoadForgive ==
  LET c == proc[1]["cls"]
  IN /\ (proc[1]["pc"] = "gate" /\ ThrowingStep) =>
          proc'[1]["pc"] = "load"
     /\ (proc[1]["pc"] = "load" /\ (ThrowingStep \/ meta[c] = <<>>)) =>
          /\ proc'[1]["pc"] = "seed"
          /\ proc'[1]["locs"] = DefaultLocations(c)
     /\ (proc[1]["pc"] = "load" /\ ~ThrowingStep /\ meta[c] # <<>>) =>
          /\ proc'[1]["pc"] \in {"fetch", "done"}
          /\ proc'[1]["pc"] = "fetch" =>
               /\ Len(proc'[1]["locs"]) > 0
               /\ \A i \in DOMAIN proc'[1]["locs"] :
                    \E j \in DOMAIN meta[c] :
                      meta[c][j]["located"] /\ meta[c][j]["key"] = proc'[1]["locs"][i]
     /\ (proc[1]["pc"] = "seed" /\ proc'[1] # proc[1]) =>
          /\ proc'[1]["pc"] = "fetch"
          /\ proc'[1]["locs"] = DefaultLocations(c)
          /\ ~ThrowingStep =>
               \A i \in DOMAIN DefaultLocations(c) :
                 \E j \in DOMAIN meta'[c] :
                   meta'[c][j]["located"] /\ meta'[c][j]["key"] = DefaultLocations(c)[i]
     /\ (proc[1]["pc"] = "fetch" /\ proc'[1] # proc[1]) => nfetch' = nfetch + 1

\* An attempt fails before its fetch only for want of locations.
FailsOnlyWithoutLocations ==
  (proc[1]["pc"] = "done" /\ proc[1]["ret"] = 1 /\ nfetch = 0) =>
     proc[1]["err"] = "nolocations"

C37_GateAndLoadForgive == []FailsOnlyWithoutLocations /\ [][GateAndLoadForgive]_vars

\* The read of the latest fetch time, the read of the metadata and the
\* seeding have all thrown, and the attempt has fetched for the built-in list.
C37_Witness ==
  /\ nfault = 3
  /\ nfetch = 1
  /\ meta[proc[1]["cls"]] = <<>>
  /\ \/ proc[1]["pc"] = "archFind"
     \/ proc[1]["pc"] = "done" /\ proc[1]["err"] = "nodata"

------------------------------------------------------------------------------
(* C38: once a grid write has completed, every read of the current grid    *)
(* collection by the query API returns a complete snapshot set, that of    *)
(* the previous write or that of the new one, also when the read comes in  *)
(* the middle of a grid write or after a grid write whose insert failed:   *)
(* it never finds the collection empty or partly filled.  Stated on the    *)
(* steps that change what a read returns: from a collection that holds     *)
(* snapshots, the next thing a read can return is the whole set of         *)
(* documents of a grid write.                                              *)

\* GET /grid: getGridWeatherDocuments() returns GridWeather.find({}).
getGridWeatherDocuments == current["grid"]

C38_ReadsSeeCompleteSets ==
  [][(getGridWeatherDocuments # <<>> /\ getGridWeatherDocuments' # getGridWeatherDocuments) =>
       \E w \in Workers :
         /\ proc[w]["pc"] = "gridInsert"
         /\ getGridWeatherDocuments' = proc[w]["documents"]]_vars

------------------------------------------------------------------------------
(* C39: batchArray terminates for every integer batch size that BATCH_SIZE *)
(* can give, zero and the negative integers included.  The loop starts at  *)
(* i = 0 and adds the same size to i at each iteration, so it terminates   *)
(* exactly when every iteration moves i up, and then it has run at most    *)
(* array.length iterations when it returns: a call that is past            *)
(* array.length iterations has a size that never brings i to array.length. *)

BatchArrayReturned == batched["pc"] = "sliced"

C39_BatchArrayTerminates ==
  Len(batched["batches"]) <= Len(batched["locations"])

\* For a batch size of 1 or more the loop does return, within array.length
\* iterations, and with the batches batchArray is taken to give elsewhere.
BatchArrayPositive ==
  /\ <>(batched["batchSize"] >= 1 => BatchArrayReturned)
  /\ [](batched["batchSize"] >= 1 => Len(batched["batches"]) <= Len(batched["locations"]))
  /\ []((BatchArrayReturned /\ batched["batchSize"] >= 1) =>
          batched["batches"] = batchArray(batched["locations"], batched["batchSize"]))

==============================================================================
